---------------------------- MODULE Spec2Model ----------------------------
(***************************************************************************)
(* Aurora OS: the window manager of App.tsx (function OS) and the terminal *)
(* command engine of Terminal.tsx with the su / whoami commands.           *)
(*                                                                         *)
(* Two specifications share the module's variables:                        *)
(*   SpecWM    the window manager: open / close / minimize / maximize /    *)
(*             focus / updateWindowState, the restore and persist effects, *)
(*             a change of the active user and a remount of OS;            *)
(*   SpecTerm  one terminal instance: the session stack, executeCommand    *)
(*             with output redirection, and the filesystem calls it makes. *)
(* Each leaves the other's variables unchanged.                            *)
(***************************************************************************)
EXTENDS Integers, Sequences, FiniteSets, TLC

VARIABLES
    \* ---- window manager (App.tsx, function OS) ----
    windows,        \* useState<WindowState[]>: the live windows, in order
    topZIndexRef,   \* useRef(100): the running top z-index
    activeUser,     \* useAppContext().activeUser
    storage,        \* localStorage under 'aurora-os-windows-<user>'
    now,            \* the value Date.now() returns
    \* ---- terminal (Terminal.tsx) ----
    currentUser,    \* useFileSystem().currentUser: the globally logged-in user
    sessionStack,   \* useState<string[]>: the su stack, top is last
    history,        \* useState<CommandHistory[]>: the transcript
    files,          \* the file contents of the filesystem context
    fsCalls,        \* the filesystem calls of the last executed line
    lastCtx,        \* the context the last dispatched built-in received
    input,          \* useState(''): the text of the prompt
    commandHistory, \* useState<string[]>: every non-empty submitted line
    historyIndex,   \* useState(-1): the selection in commandHistory
    currentPath,    \* useState(homePath): the working directory
    inFlight,       \* the executeCommand calls suspended at their await
    peer,           \* sessionStack and currentPath of a second Terminal
    globIn,         \* expandGlob: the pattern and the directory listing
    globOut,        \* expandGlob: the value returned
    \* ---- effects and desktop icons (App.tsx, function OS) ----
    isRestoring,    \* useState(true)
    toRun,          \* the effects of the last commit that have yet to run
    queued,         \* the state updates that wait for the next render
    desktop,        \* listDirectory('~/Desktop'): the files, in order
    iconGridPositions, \* useState(loadIconPositions): id -> GridPosition
    positions,      \* localStorage under 'aurora-os-desktop-positions'
    timers,         \* the callbacks given to setTimeout(..., 0), in order
    quota,          \* whether localStorage.setItem throws
    raised,         \* whether an exception has left an effect or a handler
    moved,          \* the calls of moveNodeById and what they returned
    \* ---- network settings (utils) ----
    config,         \* validateNetworkConfig: the configuration it is given
    validation      \* validateNetworkConfig: the value returned

wmVars   == <<windows, topZIndexRef, activeUser, storage, now>>
promptVars == <<input, commandHistory, historyIndex, currentPath>>
fxVars   == <<isRestoring, toRun, queued>>
netVars  == <<config, validation>>
deskVars == <<desktop, iconGridPositions, positions, timers, quota, raised,
              moved, netVars>>
\* what the handlers of a terminal leave alone
sideVars == <<inFlight, peer, globIn, globOut, fxVars, deskVars>>
\* the variables of the terminals
shellVars == <<currentUser, sessionStack, history, files, fsCalls, lastCtx,
               input, commandHistory, historyIndex, currentPath,
               inFlight, peer, globIn, globOut>>
\* what the operations on windows leave alone
termVars == <<shellVars, fxVars, deskVars>>
vars     == <<windows, topZIndexRef, activeUser, storage, now,
              currentUser, sessionStack, history, files, fsCalls, lastCtx,
              input, commandHistory, historyIndex, currentPath,
              inFlight, peer, globIn, globOut, fxVars, deskVars>>

\* no effect waits, and a desktop without files
FxIdle ==
    /\ isRestoring = FALSE
    /\ toRun = <<>>
    /\ queued = <<>>
DeskIdle ==
    /\ desktop = <<>>
    /\ iconGridPositions = <<>>
    /\ positions = <<>>
    /\ timers = <<>>
    /\ quota = FALSE
    /\ raised = FALSE
    /\ moved = <<>>
    /\ config = <<>>
    /\ validation = <<>>

(***************************************************************************)
(* Bounds of the model.                                                    *)
(***************************************************************************)
MaxWindows == 3      \* at most this many live windows
MaxBumps   == 4      \* the top z-index is raised at most this far above 100
MaxWindowsR == 2     \* the same two bounds where the user changes as well
MaxBumpsR   == 3
MaxClock   == 1      \* Date.now() takes the values 0..MaxClock
MaxStack   == 3      \* the session stack holds at most this many entries
MaxHistory == 3      \* the transcript holds at most this many entries

(***************************************************************************)
(* Program constants.                                                      *)
(***************************************************************************)
TopZInit      == 100   \* useRef(100)
CascadeX      == 100   \* position.x of the first window
CascadeY      == 80    \* position.y of the first window
CascadeStep   == 30    \* offset per window already open
DefaultWidth  == 900
DefaultHeight == 600

Users    == {"root", "alice", "bob"}
NoData   == "undefined"
\* localStorage.getItem: null for a key never written
NoStore  == [present |-> FALSE, sessions |-> <<>>]
Stored(sessions) == [present |-> TRUE, sessions |-> sessions]

Max(a, b) == IF a >= b THEN a ELSE b

RECURSIVE MaxOf(_, _)
\* Math.max(floor, ...zs) over a sequence of numbers
MaxOf(floor, zs) ==
    IF zs = <<>> THEN floor ELSE MaxOf(Max(floor, Head(zs)), Tail(zs))

MapSeq(s, F(_)) == [i \in 1..Len(s) |-> F(s[i])]

(***************************************************************************)
(* Window manager                                                          *)
(***************************************************************************)
\* what openWindow is called with: a type and no data (Dock, MenuBar), or a
\* finder with a path (handleIconDoubleClick)
OpenInputs == {<<"finder", "/home/alice/Desktop/docs">>, <<"terminal", NoData>>}

\* what a drag or a resize of a window reports (Window.tsx onDragStop,
\* onResizeStop)
DragUpdate   == [position |-> <<40, 60>>]
ResizeUpdate == [size |-> <<640, 480>>, position |-> <<40, 60>>]
Updates      == {DragUpdate, ResizeUpdate}

\* getAppContent: the content element and the title for an app type
getAppContent(type, data) ==
    CASE type = "finder"   -> [content |-> <<"FileManager", data>>,
                               title   |-> "Finder"]
      [] type = "terminal" -> [content |-> <<"Terminal", NoData>>,
                               title   |-> "Terminal"]
      [] OTHER             -> [content |-> <<"PlaceholderApp", NoData>>,
                               title   |-> type]

NullId == <<"null", 0>>

\* `${type}-${Date.now()}`
WindowId(type, clock) == <<type, clock>>

\* the updater of openWindow handed the previous list and the raised ref
openWindow(prevWindows, newZIndex, type, data, clock) ==
    Append(prevWindows,
           [id          |-> WindowId(type, clock),
            type        |-> type,
            title       |-> getAppContent(type, data).title,
            content     |-> getAppContent(type, data).content,
            isMinimized |-> FALSE,
            isMaximized |-> FALSE,
            position    |-> <<CascadeX + Len(prevWindows) * CascadeStep,
                              CascadeY + Len(prevWindows) * CascadeStep>>,
            size        |-> <<DefaultWidth, DefaultHeight>>,
            zIndex      |-> newZIndex,
            data        |-> data])

closeWindow(prevWindows, id) ==
    SelectSeq(prevWindows, LAMBDA w : w.id # id)

RECURSIVE ReduceMax(_, _)
\* ws.reduce((max, w) => w.zIndex > max.zIndex ? w : max, max)
ReduceMax(max, ws) ==
    IF ws = <<>> THEN max
    ELSE ReduceMax(IF Head(ws).zIndex > max.zIndex THEN Head(ws) ELSE max,
                   Tail(ws))

\* a minimizeWindow that also takes the window out of the maximized state
minimizeWindowUnmaximizes(prevWindows, top, id) ==
    [windows |-> MapSeq(prevWindows,
                   LAMBDA w : IF w.id = id
                              THEN [w EXCEPT !.isMinimized = TRUE,
                                             !.isMaximized = FALSE]
                              ELSE w),
     top |-> top]

\* a minimizeWindow that hands the top on only when the window minimized
\* was the one with the highest z-index
minimizeWindowIfFocused(prevWindows, top, id) ==
    LET updated == MapSeq(prevWindows,
                     LAMBDA w : IF w.id = id
                                THEN [w EXCEPT !.isMinimized = TRUE] ELSE w)
        visibleWindows == SelectSeq(updated, LAMBDA w : ~w.isMinimized)
    IN  IF /\ Len(visibleWindows) > 0
           /\ ReduceMax(prevWindows[1], prevWindows).id = id
        THEN LET topWindow == ReduceMax(visibleWindows[1], visibleWindows)
             IN  [windows |-> MapSeq(updated,
                       LAMBDA w : IF w.id = topWindow.id
                                  THEN [w EXCEPT !.zIndex = top + 1] ELSE w),
                  top |-> top + 1]
        ELSE [windows |-> updated, top |-> top]

\* the updater of minimizeWindow: the new list and the new value of the ref
minimizeWindow(prevWindows, top, id) ==
    LET updated == MapSeq(prevWindows,
                     LAMBDA w : IF w.id = id
                                THEN [w EXCEPT !.isMinimized = TRUE] ELSE w)
        visibleWindows == SelectSeq(updated, LAMBDA w : ~w.isMinimized)
    IN  IF Len(visibleWindows) > 0
        THEN LET topWindow == ReduceMax(visibleWindows[1], visibleWindows)
                 newZIndex == top + 1
             IN  [windows |-> MapSeq(updated,
                       LAMBDA w : IF w.id = topWindow.id
                                  THEN [w EXCEPT !.zIndex = newZIndex] ELSE w),
                  top |-> newZIndex]
        ELSE [windows |-> updated, top |-> top]

maximizeWindow(prevWindows, id) ==
    MapSeq(prevWindows,
           LAMBDA w : IF w.id = id
                      THEN [w EXCEPT !.isMaximized = ~w.isMaximized] ELSE w)

\* the updater of focusWindow handed the previous list and the raised ref
focusWindow(prevWindows, newZIndex, id) ==
    MapSeq(prevWindows,
           LAMBDA w : IF w.id = id
                      THEN [w EXCEPT !.zIndex = newZIndex,
                                     !.isMinimized = FALSE]
                      ELSE w)

\* { ...w, ...updates }
ApplyUpdates(w, updates) ==
    [f \in DOMAIN w |-> IF f \in DOMAIN updates THEN updates[f] ELSE w[f]]

updateWindowState(prevWindows, id, updates) ==
    MapSeq(prevWindows,
           LAMBDA w : IF w.id = id THEN ApplyUpdates(w, updates) ELSE w)

\* windows.reduce(...).id, null for no window
focusedWindowId(ws) ==
    IF Len(ws) = 0 THEN NullId ELSE ReduceMax(ws[1], ws).id

\* the persist effect's map to WindowSession, as JSON.stringify keeps it
Serialize(ws) ==
    MapSeq(ws, LAMBDA w : [id          |-> w.id,
                           type        |-> w.type,
                           title       |-> w.title,
                           isMinimized |-> w.isMinimized,
                           isMaximized |-> w.isMaximized,
                           position    |-> w.position,
                           size        |-> w.size,
                           zIndex      |-> w.zIndex,
                           data        |-> w.data])

\* a restore that makes the content from the type alone
DeserializeWithoutData(sessions) ==
    MapSeq(sessions, LAMBDA s :
        [id          |-> s.id,
         type        |-> s.type,
         title       |-> s.title,
         content     |-> getAppContent(s.type, NoData).content,
         isMinimized |-> s.isMinimized,
         isMaximized |-> s.isMaximized,
         position    |-> s.position,
         size        |-> s.size,
         zIndex      |-> s.zIndex,
         data        |-> s.data])

\* the restore effect's map of the parsed sessions to WindowState
Deserialize(sessions) ==
    MapSeq(sessions, LAMBDA s :
        [id          |-> s.id,
         type        |-> s.type,
         title       |-> s.title,
         content     |-> getAppContent(s.type, s.data).content,
         isMinimized |-> s.isMinimized,
         isMaximized |-> s.isMaximized,
         position    |-> s.position,
         size        |-> s.size,
         zIndex      |-> s.zIndex,
         data        |-> s.data])

\* a restore that leaves the ref as it was
RestoreEffectKeepsTop(stored, top) ==
    [windows |-> IF stored.present THEN Deserialize(stored.sessions) ELSE <<>>,
     top     |-> top]

\* a restore that takes the maximum without the floor of 100
RestoreEffectNoFloor(stored, top) ==
    IF stored.present
    THEN [windows |-> Deserialize(stored.sessions),
          top     |-> MaxOf(0, MapSeq(Deserialize(stored.sessions),
                                      LAMBDA w : w.zIndex))]
    ELSE [windows |-> <<>>, top |-> top]

\* the restore effect: the window list and the ref after it ran for the
\* value stored under the user's key, the ref having been `top` before
RestoreEffect(stored, top) ==
    IF stored.present
    THEN LET restoredWindows == Deserialize(stored.sessions)
         IN  [windows |-> restoredWindows,
              top     |-> MaxOf(TopZInit,
                                MapSeq(restoredWindows, LAMBDA w : w.zIndex))]
    ELSE [windows |-> <<>>, top |-> top]

\* the persist effect: localStorage.setItem(key, JSON.stringify(sessions))
PersistEffect(store, user, ws) ==
    [store EXCEPT ![user] = Stored(Serialize(ws))]

LiveIds == {windows[i].id : i \in 1..Len(windows)}
CanBump == topZIndexRef < TopZInit + MaxBumps

Tick ==
    /\ now < MaxClock
    /\ now' = now + 1
    /\ UNCHANGED <<windows, topZIndexRef, activeUser, storage>>
    /\ UNCHANGED termVars

OpenWindow(type, data) ==
    /\ Len(windows) < MaxWindows
    /\ CanBump
    /\ topZIndexRef' = topZIndexRef + 1
    /\ windows' = openWindow(windows, topZIndexRef + 1, type, data, now)
    /\ storage' = PersistEffect(storage, activeUser, windows')
    /\ UNCHANGED <<activeUser, now>>
    /\ UNCHANGED termVars

CloseWindow(id) ==
    /\ windows' = closeWindow(windows, id)
    /\ storage' = PersistEffect(storage, activeUser, windows')
    /\ UNCHANGED <<topZIndexRef, activeUser, now>>
    /\ UNCHANGED termVars

MinimizeWindow(id) ==
    /\ CanBump
    /\ LET r == minimizeWindow(windows, topZIndexRef, id)
       IN  /\ windows' = r.windows
           /\ topZIndexRef' = r.top
    /\ storage' = PersistEffect(storage, activeUser, windows')
    /\ UNCHANGED <<activeUser, now>>
    /\ UNCHANGED termVars

MaximizeWindow(id) ==
    /\ windows' = maximizeWindow(windows, id)
    /\ storage' = PersistEffect(storage, activeUser, windows')
    /\ UNCHANGED <<topZIndexRef, activeUser, now>>
    /\ UNCHANGED termVars

FocusWindow(id) ==
    /\ CanBump
    /\ topZIndexRef' = topZIndexRef + 1
    /\ windows' = focusWindow(windows, topZIndexRef + 1, id)
    /\ storage' = PersistEffect(storage, activeUser, windows')
    /\ UNCHANGED <<activeUser, now>>
    /\ UNCHANGED termVars

UpdateWindowState(id, updates) ==
    /\ windows' = updateWindowState(windows, id, updates)
    /\ storage' = PersistEffect(storage, activeUser, windows')
    /\ UNCHANGED <<topZIndexRef, activeUser, now>>
    /\ UNCHANGED termVars

\* activeUser changes while OS stays mounted: the restore effect runs for
\* the new user with the ref as it is, then the persist effect for the
\* restored list
SwitchUser(u) ==
    /\ u # activeUser
    /\ activeUser' = u
    /\ LET r == RestoreEffect(storage[u], topZIndexRef)
       IN  /\ windows' = r.windows
           /\ topZIndexRef' = r.top
    /\ storage' = PersistEffect(storage, u, windows')
    /\ UNCHANGED now
    /\ UNCHANGED termVars

\* logout and login: OS is unmounted and mounted again, useRef(100) and
\* useState([]) start afresh, then the restore and persist effects run
Remount(u) ==
    /\ activeUser' = u
    /\ LET r == RestoreEffect(storage[u], TopZInit)
       IN  /\ windows' = r.windows
           /\ topZIndexRef' = r.top
    /\ storage' = PersistEffect(storage, u, windows')
    /\ UNCHANGED now
    /\ UNCHANGED termVars

WMUsers == {"alice", "bob"}

TermIdle ==
    /\ currentUser = "alice"
    /\ sessionStack = <<"alice">>
    /\ history = <<>>
    /\ files = <<>>
    /\ fsCalls = <<>>
    /\ lastCtx = <<>>
    /\ input = ""
    /\ commandHistory = <<>>
    /\ historyIndex = -1
    /\ currentPath = "/home/alice"
    /\ inFlight = <<>>
    /\ peer = <<>>
    /\ globIn = <<>>
    /\ globOut = <<>>
    /\ FxIdle
    /\ DeskIdle

InitWM ==
    /\ windows = <<>>
    /\ topZIndexRef = TopZInit
    /\ activeUser = "alice"
    /\ storage = [u \in WMUsers |-> IF u = "alice" THEN Stored(<<>>) ELSE NoStore]
    /\ now = 0
    /\ TermIdle

NextWM ==
    \/ Tick
    \/ \E in \in OpenInputs : OpenWindow(in[1], in[2])
    \/ \E id \in LiveIds : CloseWindow(id)
    \/ \E id \in LiveIds : MinimizeWindow(id)
    \/ \E id \in LiveIds : MaximizeWindow(id)
    \/ \E id \in LiveIds : FocusWindow(id)
    \/ \E id \in LiveIds, updates \in Updates : UpdateWindowState(id, updates)

\* one user session, from a fresh mount
SpecWM == InitWM /\ [][NextWM]_vars

CanBumpR == topZIndexRef < TopZInit + MaxBumpsR

\* the operations that assign z-indices, with changes of the user and
\* remounts: every session after the first starts from a restored list
NextWMRestore ==
    \/ Tick
    \/ \E in \in OpenInputs :
          Len(windows) < MaxWindowsR /\ CanBumpR /\ OpenWindow(in[1], in[2])
    \/ \E id \in LiveIds : CloseWindow(id)
    \/ \E id \in LiveIds : CanBumpR /\ MinimizeWindow(id)
    \/ \E id \in LiveIds : CanBumpR /\ FocusWindow(id)
    \/ \E u \in WMUsers : SwitchUser(u)
    \/ \E u \in WMUsers : Remount(u)

SpecWMRestore == InitWM /\ [][NextWMRestore]_vars

(* The effects of OS one by one.  A commit leaves the effects whose         *)
(* dependencies changed in toRun, in the order of the source: the restore  *)
(* effect (deps: activeUser, getAppContent) before the persist effect      *)
(* (deps: windows, activeUser, isRestoring).  An effect reads the state of *)
(* the commit it belongs to; what it sets waits in queued for the next     *)
(* render.                                                                 *)

\* a state update that waits: setWindows(value), setIsRestoring(value)
SetWindows(ws)    == [set |-> "windows", value |-> ws]
SetIsRestoring(b) == [set |-> "isRestoring", value |-> b]

\* the value of a state cell once the updates that wait are applied
RECURSIVE Rendered(_, _, _)
Rendered(cell, value, updates) ==
    IF updates = <<>> THEN value
    ELSE Rendered(cell,
                  IF Head(updates).set = cell THEN Head(updates).value
                  ELSE value,
                  Tail(updates))

\* the effects a commit leaves to run
effectsOf(userChanged, updates, restoringBefore, restoringAfter) ==
    (IF userChanged THEN <<"restore">> ELSE <<>>)
    \o (IF \/ userChanged
            \/ \E i \in 1..Len(updates) : updates[i].set = "windows"
            \/ restoringBefore # restoringAfter
         THEN <<"persist">> ELSE <<>>)

\* the restore effect
FxRestore ==
    /\ toRun # <<>> /\ Head(toRun) = "restore"
    /\ LET r == RestoreEffect(storage[activeUser], topZIndexRef)
       IN  /\ queued' = queued \o <<SetIsRestoring(TRUE),
                                     SetWindows(r.windows),
                                     SetIsRestoring(FALSE)>>
           /\ topZIndexRef' = r.top
    /\ toRun' = Tail(toRun)
    /\ UNCHANGED <<windows, activeUser, storage, now, isRestoring>>
    /\ UNCHANGED <<shellVars, deskVars>>

\* the persist effect: if (isRestoring) return, with the value of the
\* commit the effect belongs to
FxPersist ==
    /\ toRun # <<>> /\ Head(toRun) = "persist"
    /\ storage' = IF isRestoring THEN storage
                  ELSE PersistEffect(storage, activeUser, windows)
    /\ toRun' = Tail(toRun)
    /\ UNCHANGED <<windows, topZIndexRef, activeUser, now, isRestoring,
                   queued>>
    /\ UNCHANGED <<shellVars, deskVars>>

\* the render that the updates of the effects ask for
FxRender ==
    /\ toRun = <<>> /\ queued # <<>>
    /\ windows' = Rendered("windows", windows, queued)
    /\ isRestoring' = Rendered("isRestoring", isRestoring, queued)
    /\ toRun' = effectsOf(FALSE, queued, isRestoring, isRestoring')
    /\ queued' = <<>>
    /\ UNCHANGED <<topZIndexRef, activeUser, storage, now>>
    /\ UNCHANGED <<shellVars, deskVars>>

\* activeUser changes while OS stays mounted: a render with the new user
FxSwitchUser(u) ==
    /\ toRun = <<>>
    /\ u # activeUser
    /\ activeUser' = u
    /\ windows' = Rendered("windows", windows, queued)
    /\ isRestoring' = Rendered("isRestoring", isRestoring, queued)
    /\ toRun' = effectsOf(TRUE, queued, isRestoring, isRestoring')
    /\ queued' = <<>>
    /\ UNCHANGED <<topZIndexRef, storage, now>>
    /\ UNCHANGED <<shellVars, deskVars>>

\* logout and login: OS is mounted afresh, and its effects have yet to run
FxRemount(u) ==
    /\ toRun = <<>> /\ queued = <<>>
    /\ activeUser' = u
    /\ windows' = <<>>
    /\ isRestoring' = TRUE
    /\ topZIndexRef' = TopZInit
    /\ toRun' = <<"restore", "persist">>
    /\ UNCHANGED <<storage, now, queued>>
    /\ UNCHANGED <<shellVars, deskVars>>

\* a handler that sets the window list, and the render that follows it
FxHandled(ws, top) ==
    /\ toRun = <<>> /\ queued = <<>>
    /\ windows' = ws
    /\ topZIndexRef' = top
    /\ toRun' = effectsOf(FALSE, <<SetWindows(ws)>>, isRestoring, isRestoring)
    /\ UNCHANGED <<activeUser, storage, now, isRestoring, queued>>
    /\ UNCHANGED <<shellVars, deskVars>>

FxOpenWindow(type, data) ==
    /\ Len(windows) < MaxWindowsR /\ CanBumpR
    /\ FxHandled(openWindow(windows, topZIndexRef + 1, type, data, now),
                 topZIndexRef + 1)

FxCloseWindow(id) == FxHandled(closeWindow(windows, id), topZIndexRef)

FxMinimizeWindow(id) ==
    /\ CanBumpR
    /\ FxHandled(minimizeWindow(windows, topZIndexRef, id).windows,
                 minimizeWindow(windows, topZIndexRef, id).top)

InitEffects ==
    /\ windows = <<>>
    /\ topZIndexRef = TopZInit
    /\ activeUser = "alice"
    /\ storage = [u \in WMUsers |-> NoStore]
    /\ now = 0
    /\ isRestoring = TRUE
    /\ toRun = <<"restore", "persist">>
    /\ queued = <<>>
    /\ currentUser = "alice"
    /\ sessionStack = <<"alice">>
    /\ history = <<>>
    /\ files = <<>>
    /\ fsCalls = <<>>
    /\ lastCtx = <<>>
    /\ input = ""
    /\ commandHistory = <<>>
    /\ historyIndex = -1
    /\ currentPath = "/home/alice"
    /\ inFlight = <<>>
    /\ peer = <<>>
    /\ globIn = <<>>
    /\ globOut = <<>>
    /\ DeskIdle

NextEffects ==
    \/ FxRestore
    \/ FxPersist
    \/ FxRender
    \/ \E u \in WMUsers : FxSwitchUser(u)
    \/ \E u \in WMUsers : FxRemount(u)
    \/ \E in \in OpenInputs : FxOpenWindow(in[1], in[2])
    \/ \E id \in LiveIds : FxCloseWindow(id)
    \/ \E id \in LiveIds : FxMinimizeWindow(id)

SpecEffects == InitEffects /\ [][NextEffects]_vars

(***************************************************************************)
(* Desktop icons.  utils/gridSystem and the file system context are not    *)
(* part of the sources at hand: findNextFreeCell, rearrangeGrid and        *)
(* moveNodeById are modelled from the specification (sections 3 and 4.5).  *)
(***************************************************************************)
GridCols  == 2       \* the grid has this many columns
GridRows  == 2       \* and this many rows
MaxTimers == 2       \* an event is taken while fewer callbacks wait
MaxMoves  == 1       \* moveNodeById is called at most this often

\* GridPosition { col, row }
Cell(col, row) == [col |-> col, row |-> row]
Cells == {Cell(c, r) : c \in 0..(GridCols - 1), r \in 0..(GridRows - 1)}

\* gridPosToKey: `${col},${row}`
gridPosToKey(pos) == <<pos.col, pos.row>>

\* the place of a cell in the scan: columns right to left, each from the
\* top
ScanIndex(pos) == (GridCols - 1 - pos.col) * GridRows + pos.row

\* findNextFreeCell(occupied, config, viewportH): the first cell of the scan
\* whose key is not in occupied; the files are fewer than the cells
findNextFreeCell(occupied) ==
    LET free == {c \in Cells : gridPosToKey(c) \notin occupied}
    IN  IF free = {} THEN Cell(0, 0)
        ELSE CHOOSE c \in free :
                \A d \in free : ScanIndex(c) <= ScanIndex(d)

\* the files of ~/Desktop: two files and a folder
File(id, type) == [id |-> id, type |-> type, name |-> id]
DeskFiles == {File("a", "file"), File("b", "file"),
              File("docs", "directory")}
DeskIds == {f.id : f \in DeskFiles}
IdsOf(listing) == {listing[i].id : i \in 1..Len(listing)}
DeskListings ==
    {l \in UNION {[1..n -> DeskFiles] : n \in 0..Cardinality(DeskFiles)} :
        \A i, j \in 1..Len(l) : i # j => l[i].id # l[j].id}

\* Record<string, GridPosition>
NoPositions == [id \in {} |-> Cell(0, 0)]
PositionMaps == UNION {[ids -> Cells] : ids \in SUBSET DeskIds}
\* the maps that give no cell to two ids
OneEach == {pos \in PositionMaps :
               \A i, j \in DOMAIN pos : i # j => pos[i] # pos[j]}
Without1(pos, id) == [i \in DOMAIN pos \ {id} |-> pos[i]]

\* the useMemo that derives the icons: files.forEach with occupiedCells
\* and newPositions
RECURSIVE deriveFrom(_, _, _, _, _, _)
deriveFrom(i, listing, pos, icons, occupiedCells, newPositions) ==
    IF i > Len(listing)
    THEN [icons |-> icons, newPositions |-> newPositions]
    ELSE LET file    == listing[i]
             stored  == file.id \in DOMAIN pos
             gridPos == IF stored THEN pos[file.id]
                        ELSE findNextFreeCell(occupiedCells)
         IN  deriveFrom(i + 1, listing, pos,
                        Append(icons,
                               [id   |-> file.id,
                                name |-> file.name,
                                type |-> IF file.type = "directory"
                                         THEN "folder" ELSE "file",
                                gridPos |-> gridPos]),
                        occupiedCells \cup {gridPosToKey(gridPos)},
                        IF stored THEN newPositions
                        ELSE (file.id :> gridPos) @@ newPositions)

desktopIcons(listing, pos) ==
    deriveFrom(1, listing, pos, <<>>, {}, NoPositions)

\* what localStorage holds under 'aurora-os-desktop-positions': nothing, a
\* text that JSON.parse rejects, or a map
NothingStored == [present |-> FALSE, parses |-> FALSE, map |-> NoPositions]
Garbled       == [present |-> TRUE, parses |-> FALSE, map |-> NoPositions]
StoredMap(pos) == [present |-> TRUE, parses |-> TRUE, map |-> pos]

\* loadIconPositions, for positions stored as grid cells
loadIconPositions(stored) ==
    IF stored.present /\ stored.parses THEN stored.map ELSE NoPositions

\* a callback that keeps prev whatever was derived
syncNever(prev, newPositions) == [value |-> prev, changed |-> FALSE]

\* the callback of the sync effect: merged, or prev for as many keys
sync(prev, newPositions) ==
    LET merged == newPositions @@ prev
    IN  IF Cardinality(DOMAIN prev) = Cardinality(DOMAIN merged)
        THEN [value |-> prev, changed |-> FALSE]
        ELSE [value |-> merged, changed |-> TRUE]

\* the callback of the orphan cleanup: next, or prev if nothing was deleted
cleanup(prev, orphans) ==
    IF orphans \cap DOMAIN prev = {}
    THEN [value |-> prev, changed |-> FALSE]
    ELSE [value |-> [i \in DOMAIN prev \ orphans |-> prev[i]],
          changed |-> TRUE]

SyncTimer(newPositions) == [kind |-> "sync", arg |-> newPositions]
CleanupTimer(orphans)   == [kind |-> "cleanup", arg |-> orphans]

\* the timers the sync effect and the cleanup effect of a commit set
timersOf(listing, pos) ==
    LET d       == desktopIcons(listing, pos)
        orphans == DOMAIN pos \ IdsOf(listing)
    IN  (IF DOMAIN d.newPositions # {}
         THEN <<SyncTimer(d.newPositions)>> ELSE <<>>)
        \o (IF orphans # {} THEN <<CleanupTimer(orphans)>> ELSE <<>>)

\* the effects of a commit, in the order of the source: the positions are
\* saved if the map is a new one, which throws if setItem does; then the
\* sync effect and the cleanup effect set their timers behind those that
\* wait
Effects(listing, pos, saved, waiting) ==
    /\ toRun' = <<>>
    /\ IF saved /\ quota
       THEN /\ raised' = TRUE
            /\ UNCHANGED positions
       ELSE /\ positions' = IF saved THEN StoredMap(pos) ELSE positions
            /\ UNCHANGED raised
    /\ timers' = waiting \o timersOf(listing, pos)

\* the effects of the mount
DeskMount ==
    /\ ~raised /\ toRun # <<>>
    /\ Effects(desktop, iconGridPositions, TRUE, timers)
    /\ UNCHANGED <<desktop, iconGridPositions, quota, moved>>
    /\ UNCHANGED <<isRestoring, queued>>
    /\ UNCHANGED <<wmVars, shellVars, netVars>>

\* a callback given to setTimeout runs: the map is set, and if it is a new
\* one OS renders and its effects run
RunTimer ==
    /\ ~raised /\ toRun = <<>> /\ timers # <<>>
    /\ LET t == Head(timers)
           r == IF t.kind = "sync" THEN sync(iconGridPositions, t.arg)
                ELSE cleanup(iconGridPositions, t.arg)
       IN  /\ iconGridPositions' = r.value
           /\ IF r.changed
              THEN Effects(desktop, r.value, TRUE, Tail(timers))
              ELSE /\ timers' = Tail(timers)
                   /\ UNCHANGED <<toRun, positions, raised>>
    /\ UNCHANGED <<desktop, quota, moved>>
    /\ UNCHANGED <<isRestoring, queued>>
    /\ UNCHANGED <<wmVars, shellVars, netVars>>

\* an event is handled: no effect waits, and few callbacks do
CanHandle == ~raised /\ toRun = <<>> /\ Len(timers) < MaxTimers

\* the file system changes: a file appears on the desktop
FileAppears(file) ==
    /\ CanHandle
    /\ file.id \notin IdsOf(desktop)
    /\ desktop' = Append(desktop, file)
    /\ Effects(desktop', iconGridPositions, FALSE, timers)
    /\ UNCHANGED <<iconGridPositions, quota, moved>>
    /\ UNCHANGED <<isRestoring, queued>>
    /\ UNCHANGED <<wmVars, shellVars, netVars>>

\* the file system changes: a file of the desktop is deleted or moved away
FileDisappears(id) ==
    /\ CanHandle
    /\ id \in IdsOf(desktop)
    /\ desktop' = SelectSeq(desktop, LAMBDA f : f.id # id)
    /\ Effects(desktop', iconGridPositions, FALSE, timers)
    /\ UNCHANGED <<iconGridPositions, quota, moved>>
    /\ UNCHANGED <<isRestoring, queued>>
    /\ UNCHANGED <<wmVars, shellVars, netVars>>

\* localStorage begins or ceases to throw on setItem
QuotaChanges ==
    /\ ~raised /\ toRun = <<>>
    /\ quota' = ~quota
    /\ UNCHANGED <<desktop, iconGridPositions, positions, timers, raised,
                   moved>>
    /\ UNCHANGED fxVars
    /\ UNCHANGED <<wmVars, shellVars, netVars>>

\* rearrangeGrid(iconIds, currentPositions, draggedId, targetCell, ...):
\* the dragged icon takes the target cell, and the icon that held it moves
\* to the next free cell
rearrangeGrid(iconIds, currentPositions, draggedId, targetCell) ==
    LET placed   == (draggedId :> targetCell) @@ currentPositions
        occupant == {i \in (iconIds \cap DOMAIN currentPositions)
                            \ {draggedId} :
                        currentPositions[i] = targetCell}
        taken    == {gridPosToKey(placed[i]) :
                        i \in DOMAIN placed \cap iconIds}
    IN  IF occupant = {} THEN placed
        ELSE ((CHOOSE i \in occupant : TRUE) :> findNextFreeCell(taken))
             @@ placed

\* desktopIcons.find(icon => icon.id !== id && iconGridPos && key matches):
\* the first icon with a stored position in the target cell
conflictingIcon(icons, pos, id, targetGridPos) ==
    SelectSeq(icons,
              LAMBDA icon : /\ icon.id # id
                            /\ icon.id \in DOMAIN pos
                            /\ gridPosToKey(pos[icon.id])
                                  = gridPosToKey(targetGridPos))

\* moveNodeById(id, destParentPath): the file leaves the desktop if the
\* move is allowed
moveNodeById(listing, id, ok) ==
    IF ok THEN SelectSeq(listing, LAMBDA f : f.id # id) ELSE listing

\* setIconGridPositions(prev => { delete next[id] }) after moveNodeById
mergedPositions(pos, id) == Without1(pos, id)

\* an update that keeps the entry of the dragged icon alone
placeIconAlone(prev, id, targetGridPos) == (id :> targetGridPos)

\* setIconGridPositions(prev => ({ ...prev, [id]: targetGridPos }))
placeIcon(prev, id, targetGridPos) == (id :> targetGridPos) @@ prev

\* updateIconPosition(id, position): the drop is in targetGridPos, within
\* 35 px of the centre of the icon of that cell or not; ok is what
\* moveNodeById returns
UpdateIconPosition(id, targetGridPos, near, ok) ==
    /\ CanHandle
    /\ id \in IdsOf(desktop)
    /\ LET icons == desktopIcons(desktop, iconGridPositions).icons
           found == conflictingIcon(icons, iconGridPositions, id,
                                    targetGridPos)
       IN  IF found # <<>> /\ found[1].type = "folder" /\ near
           THEN /\ Len(moved) < MaxMoves
                /\ moved' = Append(moved, [id |-> id, dest |-> found[1].name,
                                           returned |-> ok])
                /\ desktop' = moveNodeById(desktop, id, ok)
                /\ iconGridPositions' =
                      mergedPositions(iconGridPositions, id)
           ELSE /\ ok
                /\ iconGridPositions' =
                      IF found # <<>>
                      THEN rearrangeGrid(IdsOf(desktop), iconGridPositions,
                                         id, targetGridPos)
                      ELSE placeIcon(iconGridPositions, id, targetGridPos)
                /\ UNCHANGED <<desktop, moved>>
    /\ Effects(desktop', iconGridPositions', TRUE, timers)
    /\ UNCHANGED quota
    /\ UNCHANGED <<isRestoring, queued>>
    /\ UNCHANGED <<wmVars, shellVars, netVars>>

\* OS is mounted over a desktop and stored positions; its effects have yet
\* to run
InitDesk ==
    /\ desktop \in DeskListings
    /\ positions \in {NothingStored, Garbled}
                     \cup {StoredMap(pos) : pos \in OneEach}
    /\ iconGridPositions = loadIconPositions(positions)
    /\ timers = <<>>
    /\ quota = FALSE
    /\ raised = FALSE
    /\ moved = <<>>
    /\ config = <<>>
    /\ validation = <<>>
    /\ isRestoring = FALSE
    /\ toRun = <<"positions", "sync", "cleanup">>
    /\ queued = <<>>
    /\ windows = <<>>
    /\ topZIndexRef = TopZInit
    /\ activeUser = "alice"
    /\ storage = [u \in WMUsers |-> NoStore]
    /\ now = 0
    /\ currentUser = "alice"
    /\ sessionStack = <<"alice">>
    /\ history = <<>>
    /\ files = <<>>
    /\ fsCalls = <<>>
    /\ lastCtx = <<>>
    /\ input = ""
    /\ commandHistory = <<>>
    /\ historyIndex = -1
    /\ currentPath = "/home/alice"
    /\ inFlight = <<>>
    /\ peer = <<>>
    /\ globIn = <<>>
    /\ globOut = <<>>

NextDesk ==
    \/ DeskMount
    \/ RunTimer
    \/ \E file \in DeskFiles : FileAppears(file)
    \/ \E id \in DeskIds : FileDisappears(id)
    \/ QuotaChanges
    \/ \E id \in DeskIds, cell \in Cells, near, ok \in BOOLEAN :
          UpdateIconPosition(id, cell, near, ok)

SpecDesk == InitDesk /\ [][NextDesk]_vars

\* reconciliation alone: any listing and any stored map, no event of the
\* user or of the file system, and a storage that takes every write.  The
\* effects of a commit run after it, and a callback given to setTimeout is
\* run by the event loop: both are taken if they stay enabled.
InitSettle ==
    /\ desktop \in DeskListings
    /\ positions \in {NothingStored, Garbled}
                     \cup {StoredMap(pos) : pos \in PositionMaps}
    /\ iconGridPositions = loadIconPositions(positions)
    /\ timers = <<>>
    /\ quota = FALSE
    /\ raised = FALSE
    /\ moved = <<>>
    /\ config = <<>>
    /\ validation = <<>>
    /\ isRestoring = FALSE
    /\ toRun = <<"positions", "sync", "cleanup">>
    /\ queued = <<>>
    /\ windows = <<>>
    /\ topZIndexRef = TopZInit
    /\ activeUser = "alice"
    /\ storage = [u \in WMUsers |-> NoStore]
    /\ now = 0
    /\ currentUser = "alice"
    /\ sessionStack = <<"alice">>
    /\ history = <<>>
    /\ files = <<>>
    /\ fsCalls = <<>>
    /\ lastCtx = <<>>
    /\ input = ""
    /\ commandHistory = <<>>
    /\ historyIndex = -1
    /\ currentPath = "/home/alice"
    /\ inFlight = <<>>
    /\ peer = <<>>
    /\ globIn = <<>>
    /\ globOut = <<>>

NextSettle ==
    \/ DeskMount
    \/ RunTimer

SpecSettle ==
    InitSettle /\ [][NextSettle]_vars
        /\ WF_vars(DeskMount) /\ WF_vars(RunTimer)




(***************************************************************************)
(* Users and the filesystem context.  FileSystemContext.tsx is not part of *)
(* the sources at hand: its operations are modelled from the specification *)
(* (sections 3, 4.1 and 4.2) over a flat store of files.                   *)
(***************************************************************************)
Undefined == "undefined"

\* the user store: password (optional) and gid of each user
UserStore ==
    [u \in Users |->
        CASE u = "root"  -> [username |-> u, password |-> "admin", gid |-> 0]
          [] u = "alice" -> [username |-> u, password |-> "apw", gid |-> 1000]
          [] u = "bob"   -> [username |-> u, password |-> Undefined,
                             gid |-> 1001]]

\* fileSystem.users.find(u => u.username === targetUser)
FindUser(name) ==
    IF name \in Users
    THEN [found |-> TRUE, password |-> UserStore[name].password]
    ELSE [found |-> FALSE, password |-> Undefined]

Paths == {"/home/alice/notes.txt", "/tmp/out.txt"}

\* text is held as its sequence of lines, a line as its sequence of pieces;
\* the empty string is the one empty line
EmptyLine == <<"">>
EmptyText == <<EmptyLine>>
Null      == <<>>
\* lines.join('\n')
JoinLines(lines) == IF lines = <<>> THEN EmptyText ELSE lines
\* JavaScript truthiness of a string or null
Truthy(text) == text # Null /\ text # EmptyText
\* existing + '\n' + textContent
ConcatWithNewline(a, b) == a \o b

Missing == [exists |-> FALSE, content |-> Null, owner |-> Undefined,
            permissions |-> <<>>]

InitialFiles ==
    [p \in Paths |->
        IF p = "/home/alice/notes.txt"
        THEN [exists |-> TRUE, content |-> <<<<"secret">>>>, owner |-> "alice",
              permissions |-> <<"r","w","-","-","-","-","-","-","-">>]
        ELSE [exists |-> TRUE, content |-> EmptyText, owner |-> "bob",
              permissions |-> <<"r","w","-","r","w","-","r","w","-">>]]

OpOffset(operation) ==
    CASE operation = "read" -> 1 [] operation = "write" -> 2 [] OTHER -> 3

\* checkPermissions(node, user, operation), section 4.1
checkPermissions(node, user, operation) ==
    IF user = "root" THEN TRUE
    ELSE IF user \notin Users \/ Len(node.permissions) # 9 THEN FALSE
    ELSE LET class == IF user = node.owner THEN 0
                      ELSE IF UserStore[user].gid = UserStore[node.owner].gid
                           THEN 3 ELSE 6
         IN  node.permissions[class + OpOffset(operation)] # "-"

\* the acting user of a filesystem operation: asUser, by default the
\* session's current user
ActingUser(asUser, current) == IF asUser = Undefined THEN current ELSE asUser

NodeAt(fs, path) == IF path \in DOMAIN fs THEN fs[path] ELSE Missing

\* readFile(path, asUser?): null for a missing node or without read permission
readFile(fs, path, actor) ==
    LET node == NodeAt(fs, path)
    IN  IF node.exists /\ checkPermissions(node, actor, "read")
        THEN node.content ELSE Null

\* writeFile(path, content, asUser?): whether it succeeded, and the store
writeFile(fs, path, content, actor) ==
    LET node == NodeAt(fs, path)
    IN  IF node.exists /\ checkPermissions(node, actor, "write")
        THEN [success |-> TRUE,
              fs |-> [fs EXCEPT ![path] = [node EXCEPT !.content = content]]]
        ELSE [success |-> FALSE, fs |-> fs]

\* a filesystem call as the context sees it
FsCall(op, path, asUser, current) ==
    [op |-> op, path |-> path, asUser |-> asUser,
     actor |-> ActingUser(asUser, current)]

(***************************************************************************)
(* Terminal                                                                *)
(***************************************************************************)
PATH == <<"/bin", "/usr/bin">>

\* sessionStack.length > 0 ? top : (currentUser || 'guest')
activeTerminalUser(stack, current) ==
    IF Len(stack) > 0 THEN stack[Len(stack)] ELSE current

\* the effect that initialises the stack with the global user
InitSessionEffect(stack, current) ==
    IF Len(stack) = 0 THEN <<current>> ELSE stack

pushSession(prev, username) == Append(prev, username)

\* a close that removes the oldest entry instead of the newest
closeSessionDropsBottom(prev) ==
    IF Len(prev) > 1 THEN Tail(prev) ELSE prev

closeSession(prev) ==
    IF Len(prev) > 1 THEN SubSeq(prev, 1, Len(prev) - 1) ELSE prev

\* getTerminalAccentColor
getTerminalAccentColor(active, current) ==
    IF active = "root" THEN "#ef4444"
    ELSE IF active = current THEN "accentColor" ELSE "#a855f7"

NoResult == [output |-> <<>>, error |-> FALSE, spawn |-> Undefined]

\* su without the early return for the current user
suNoSelfCheck(args, terminalUser) ==
    LET targetUser == IF Len(args) > 0 THEN args[1] ELSE "root"
        password   == IF Len(args) > 1 THEN args[2] ELSE ""
        user       == FindUser(targetUser)
    IN  IF ~user.found
        THEN [output |-> <<<<"su: user ", targetUser, " does not exist">>>>,
              error |-> TRUE, spawn |-> Undefined]
        ELSE IF terminalUser # "root" /\ password # ""
                /\ password # user.password
        THEN [output |-> <<<<"su: Authentication failure">>>>,
              error |-> TRUE, spawn |-> Undefined]
        ELSE IF terminalUser # "root" /\ password = ""
        THEN [output |-> <<<<"su: Password required (usage: su <user> <pass>)">>>>,
              error |-> TRUE, spawn |-> Undefined]
        ELSE [output |-> <<<<"Logged in as ", targetUser>>>>,
              error |-> FALSE, spawn |-> targetUser]

\* su that takes any supplied password
suAnyPassword(args, terminalUser) ==
    LET targetUser == IF Len(args) > 0 THEN args[1] ELSE "root"
        password   == IF Len(args) > 1 THEN args[2] ELSE ""
        user       == FindUser(targetUser)
    IN  IF targetUser = terminalUser
        THEN [output |-> <<<<"Already logged in as ", targetUser>>>>,
              error |-> FALSE, spawn |-> Undefined]
        ELSE IF ~user.found
        THEN [output |-> <<<<"su: user ", targetUser, " does not exist">>>>,
              error |-> TRUE, spawn |-> Undefined]
        ELSE IF terminalUser # "root" /\ password = ""
        THEN [output |-> <<<<"su: Password required (usage: su <user> <pass>)">>>>,
              error |-> TRUE, spawn |-> Undefined]
        ELSE [output |-> <<<<"Logged in as ", targetUser>>>>,
              error |-> FALSE, spawn |-> targetUser]

\* su that asks a password only when one is supplied
suPasswordOptional(args, terminalUser) ==
    LET targetUser == IF Len(args) > 0 THEN args[1] ELSE "root"
        password   == IF Len(args) > 1 THEN args[2] ELSE ""
        user       == FindUser(targetUser)
    IN  IF targetUser = terminalUser
        THEN [output |-> <<<<"Already logged in as ", targetUser>>>>,
              error |-> FALSE, spawn |-> Undefined]
        ELSE IF ~user.found
        THEN [output |-> <<<<"su: user ", targetUser, " does not exist">>>>,
              error |-> TRUE, spawn |-> Undefined]
        ELSE IF terminalUser # "root" /\ password # ""
                /\ password # user.password
        THEN [output |-> <<<<"su: Authentication failure">>>>,
              error |-> TRUE, spawn |-> Undefined]
        ELSE [output |-> <<<<"Logged in as ", targetUser>>>>,
              error |-> FALSE, spawn |-> targetUser]

\* su.execute: the result, and the user handed to spawnSession if any
suExecute(args, terminalUser) ==
    LET targetUser == IF Len(args) > 0 THEN args[1] ELSE "root"
        password   == IF Len(args) > 1 THEN args[2] ELSE ""
        user       == FindUser(targetUser)
    IN  IF targetUser = terminalUser
        THEN [output |-> <<<<"Already logged in as ", targetUser>>>>,
              error |-> FALSE, spawn |-> Undefined]
        ELSE IF ~user.found
        THEN [output |-> <<<<"su: user ", targetUser, " does not exist">>>>,
              error |-> TRUE, spawn |-> Undefined]
        ELSE IF terminalUser # "root" /\ password # ""
                /\ password # user.password
        THEN [output |-> <<<<"su: Authentication failure">>>>,
              error |-> TRUE, spawn |-> Undefined]
        ELSE IF terminalUser # "root" /\ password = ""
        THEN [output |-> <<<<"su: Password required (usage: su <user> <pass>)">>>>,
              error |-> TRUE, spawn |-> Undefined]
        ELSE [output |-> <<<<"Logged in as ", targetUser>>>>,
              error |-> FALSE, spawn |-> targetUser]

\* whoami.execute: terminalUser || fileSystem.currentUser || 'nobody'
whoamiExecute(terminalUser, current) ==
    [output |-> <<<<IF terminalUser # "" THEN terminalUser ELSE current>>>>,
     error |-> FALSE, spawn |-> Undefined]

\* the commands of the registry; su and whoami are at hand, echo, cat, exit,
\* clear and cd are modelled from the specification
Builtins == {"su", "whoami", "echo", "cat", "exit", "clear", "cd"}

\* the directories of the filesystem
Dirs == {"/", "/tmp", "/home/alice"}

\* cd: the directory to change to, if it is one
cdExecute(args) ==
    IF args # <<>> /\ args[1] \in Dirs
    THEN [output |-> <<>>, error |-> FALSE, spawn |-> Undefined]
    ELSE [output |-> <<<<"cd: ", "No such file or directory">>>>,
          error |-> TRUE, spawn |-> Undefined]

NoRedirect == [kind |-> "none", path |-> Undefined]

\* echo: its arguments joined by a blank, as one line
echoExecute(args) ==
    [output |-> << IF args = <<>> THEN EmptyLine ELSE args >>,
     error |-> FALSE, spawn |-> Undefined]

\* cat: the file read through the scoped filesystem
catExecute(args, fs, asUser) ==
    LET content == IF args = <<>> THEN Null ELSE readFile(fs, args[1], asUser)
    IN  IF content = Null
        THEN [output |-> <<<<"cat: ", "No such file or directory">>>>,
              error |-> TRUE, spawn |-> Undefined]
        ELSE [output |-> content, error |-> FALSE, spawn |-> Undefined]

\* the strings of the model that hold a '/': cmd.includes('/')
BinPaths == {"/usr/bin/finder", "/bin/data", "/usr/bin/data", "/bin/whoami",
             "/bin/locked"}
TmpPaths == {"/tmp/a.b", "/tmp/ab"}
Slashed == Paths \cup BinPaths \cup TmpPaths \cup Dirs

\* no file found: foundPath is null
NotFound == ""

\* node && node.type === 'file'; the store holds files only
IsFile(fs, path) == NodeAt(fs, path).exists

\* (dir === '/' ? '' : dir) + '/' + cmd
CheckPath(dir, cmd) == (IF dir = "/" THEN "" ELSE dir) \o "/" \o cmd

\* for (const dir of PATH) ... break: the first directory of PATH, from
\* the i-th on, that holds a file of the name
RECURSIVE searchPATH(_, _, _)
searchPATH(i, cmd, fs) ==
    IF i > Len(PATH) THEN NotFound
    ELSE IF IsFile(fs, CheckPath(PATH[i], cmd)) THEN CheckPath(PATH[i], cmd)
    ELSE searchPATH(i + 1, cmd, fs)

\* foundPath: the file the command name stands for, if any
foundPath(cmd, fs) ==
    IF cmd \in Slashed
    THEN IF IsFile(fs, cmd) THEN cmd ELSE NotFound
    ELSE searchPATH(1, cmd, fs)

\* the getNodeAtPath calls of the loop over PATH, up to the break
RECURSIVE probes(_, _, _, _)
probes(i, cmd, fs, current) ==
    IF i > Len(PATH) THEN <<>>
    ELSE <<FsCall("getNodeAtPath", CheckPath(PATH[i], cmd), Undefined,
                  current)>>
         \o (IF IsFile(fs, CheckPath(PATH[i], cmd)) THEN <<>>
             ELSE probes(i + 1, cmd, fs, current))

\* the getNodeAtPath calls of the lookup and the readFile of the file found,
\* all without asUser
lookupCalls(cmd, fs, current) ==
    (IF cmd \in Slashed
     THEN <<FsCall("getNodeAtPath", cmd, Undefined, current)>>
     ELSE probes(1, cmd, fs, current))
    \o (IF foundPath(cmd, fs) = NotFound THEN <<>>
        ELSE <<FsCall("readFile", foundPath(cmd, fs), Undefined, current)>>)

AppMarker == "#!app "

\* content && content.startsWith('#!app ')
IsLauncher(content) ==
    Truthy(content) /\ Len(content[1]) > 1 /\ content[1][1] = AppMarker

\* content.replace('#!app ', '').trim()
AppId(content) == content[1][2]

\* what the file found is read as: readFile(foundPath), without asUser
foundContent(found, fs, current) ==
    IF found = NotFound THEN Null
    ELSE readFile(fs, found, ActingUser(Undefined, current))

NoLaunch == [called |-> FALSE, appId |-> "", args |-> <<>>]

\* onLaunchApp(appId, args), if it is called
launchOf(line, found, fs, current) ==
    IF IsLauncher(foundContent(found, fs, current))
    THEN [called |-> TRUE, appId |-> AppId(foundContent(found, fs, current)),
          args |-> line.args]
    ELSE NoLaunch

\* the result for a command name that is not a built-in.  Terminal is
\* given onLaunchApp by getAppContent, so the launch is always possible.
runFound(cmd, found, fs, current) ==
    IF found = NotFound
    THEN [output |-> <<<<cmd, ": command not found">>>>,
          error |-> TRUE, spawn |-> Undefined]
    ELSE IF IsLauncher(foundContent(found, fs, current))
    THEN [output |-> <<<<"Launched ",
                        AppId(foundContent(found, fs, current))>>>>,
          error |-> FALSE, spawn |-> Undefined]
    ELSE [output |-> <<<<cmd, ": command not found",
                        " (binary execution not fully simmed)">>>>,
          error |-> TRUE, spawn |-> Undefined]

\* generateOutput: the result of the line's command, the filesystem calls
\* it makes, the context a built-in receives, and the session stack after
generateOutput(line, stack, current, fs) ==
    LET active == activeTerminalUser(stack, current)
    IN  IF line.cmd \in Builtins
        THEN LET result ==
                   CASE line.cmd = "su"     -> suExecute(line.args, active)
                     [] line.cmd = "whoami" -> whoamiExecute(active, current)
                     [] line.cmd = "echo"   -> echoExecute(line.args)
                     [] line.cmd = "cat"    -> catExecute(line.args, fs, active)
                     [] line.cmd = "cd"     -> cdExecute(line.args)
                     [] OTHER               -> NoResult
             IN  [result |-> result,
                  shouldClear |-> line.cmd = "clear",
                  cwd    |-> IF line.cmd = "cd" /\ ~result.error
                             THEN line.args[1] ELSE Undefined,
                  calls  |-> IF line.cmd = "cat" /\ line.args # <<>>
                             THEN <<FsCall("readFile", line.args[1], active,
                                           current)>>
                             ELSE <<>>,
                  ctx    |-> [dispatched |-> TRUE, terminalUser |-> active,
                              fsUser |-> active, launch |-> NoLaunch],
                  stack  |-> IF result.spawn # Undefined
                             THEN pushSession(stack, result.spawn)
                             ELSE IF line.cmd = "exit" THEN closeSession(stack)
                             ELSE stack]
        ELSE \* not a built-in: the file named, or /bin and /usr/bin searched
             [result |-> runFound(line.cmd, foundPath(line.cmd, fs), fs,
                                  current),
              shouldClear |-> FALSE,
              cwd    |-> Undefined,
              calls  |-> lookupCalls(line.cmd, fs, current),
              ctx    |-> [dispatched |-> FALSE, terminalUser |-> Undefined,
                          fsUser |-> Undefined,
                          launch |-> launchOf(line, foundPath(line.cmd, fs),
                                              fs, current)],
              stack  |-> stack]

\* the redirection step where >> puts a newline after an empty content too
redirectOutputAlwaysNewline(line, output, error, current, fs) ==
    LET textContent == JoinLines(output)
    IN  IF line.redirect.kind # "none" /\ line.redirect.path # ""
           /\ Truthy(textContent)
        THEN LET path     == line.redirect.path
                 existing == readFile(fs, path, ActingUser(Undefined, current))
                 finalContent ==
                     IF line.redirect.kind = ">>" /\ existing # Null
                     THEN ConcatWithNewline(existing, textContent)
                     ELSE textContent
                 w == writeFile(fs, path, finalContent,
                                ActingUser(Undefined, current))
             IN  [calls  |-> <<FsCall("readFile", path, Undefined, current),
                               FsCall("writeFile", path, Undefined, current)>>,
                  fs     |-> w.fs,
                  output |-> IF w.success THEN <<>>
                             ELSE <<<<"Failed to write to ", path>>>>,
                  error  |-> IF w.success THEN error ELSE TRUE]
        ELSE [calls |-> <<>>, fs |-> fs, output |-> output, error |-> error]

\* the redirection step of executeCommand: the calls, the store, and the
\* output and error flag of the entry
redirectOutput(line, output, error, current, fs) ==
    LET textContent == JoinLines(output)
    IN  IF line.redirect.kind # "none" /\ line.redirect.path # ""
           /\ Truthy(textContent)
        THEN LET path     == line.redirect.path
                 existing == readFile(fs, path, ActingUser(Undefined, current))
                 finalContent ==
                     IF line.redirect.kind = ">>" /\ Truthy(existing)
                     THEN ConcatWithNewline(existing, textContent)
                     ELSE textContent
                 w == writeFile(fs, path, finalContent,
                                ActingUser(Undefined, current))
             IN  [calls  |-> <<FsCall("readFile", path, Undefined, current),
                               FsCall("writeFile", path, Undefined, current)>>,
                  fs     |-> w.fs,
                  output |-> IF w.success THEN <<>>
                             ELSE <<<<"Failed to write to ", path>>>>,
                  error  |-> IF w.success THEN error ELSE TRUE]
        ELSE [calls |-> <<>>, fs |-> fs, output |-> output, error |-> error]

\* executeCommand for a line that is not empty and does not request clear
executeCommand(line, stack, current, fs, path) ==
    LET active == activeTerminalUser(stack, current)
        g == generateOutput(line, stack, current, fs)
        r == redirectOutput(line, g.result.output, g.result.error, current, fs)
    IN  [stack  |-> g.stack,
         fs     |-> r.fs,
         calls  |-> g.calls \o r.calls,
         ctx    |-> g.ctx,
         result |-> g.result,
         entry  |-> [command     |-> line,
                     output      |-> r.output,
                     error       |-> r.error,
                     path        |-> path,
                     accentColor |-> getTerminalAccentColor(active, current),
                     user        |-> active]]

HomePath == "/home/alice"

SuTargets   == Users \cup {"nobody"}
SuPasswords == {"admin", "apw"}
SuArgs == {<<>>} \cup {<<t>> : t \in SuTargets}
                 \cup {<<t, p>> : t \in SuTargets, p \in SuPasswords}
Redirects == {NoRedirect} \cup
             {[kind |-> k, path |-> p] : k \in {">", ">>"}, p \in Paths}

\* the lines submitted: su in every form, and the other commands with and
\* without a redirection
Lines ==
    {[cmd |-> "su", args |-> a, redirect |-> NoRedirect] : a \in SuArgs}
    \cup {[cmd |-> "su", args |-> <<"alice", "apw">>,
           redirect |-> [kind |-> ">", path |-> "/tmp/out.txt"]]}
    \cup {[cmd |-> "echo", args |-> <<"hello">>, redirect |-> r] :
             r \in Redirects}
    \cup {[cmd |-> "whoami", args |-> <<>>, redirect |-> r] :
             r \in {NoRedirect, [kind |-> ">>", path |-> "/tmp/out.txt"]}}
    \cup {[cmd |-> c, args |-> <<>>, redirect |-> NoRedirect] :
             c \in {"exit", "nosuch"}}
    \cup {[cmd |-> "cat", args |-> <<p>>, redirect |-> NoRedirect] :
             p \in Paths}

\* Enter on a line: executeCommand, the session effect, the new entry
Submit(line) ==
    /\ Len(history) < MaxHistory
    /\ LET x == executeCommand(line, sessionStack, currentUser, files,
                               HomePath)
       IN  /\ Len(x.stack) <= MaxStack
           /\ sessionStack' = InitSessionEffect(x.stack, currentUser)
           /\ files' = x.fs
           /\ fsCalls' = x.calls
           /\ lastCtx' = [ctx |-> x.ctx, result |-> x.result,
                          raised |-> FALSE]
           /\ history' = Append(history, x.entry)
    /\ UNCHANGED currentUser
    /\ UNCHANGED promptVars
    /\ UNCHANGED sideVars
    /\ UNCHANGED wmVars

NoExec == [ctx    |-> [dispatched |-> FALSE, terminalUser |-> Undefined,
                       fsUser |-> Undefined, launch |-> NoLaunch],
           result |-> NoResult,
           raised |-> FALSE]

\* no call suspended, no second terminal, expandGlob not called
SideIdle ==
    /\ inFlight = <<>>
    /\ peer = <<>>
    /\ globIn = <<>>
    /\ globOut = <<>>
    /\ FxIdle
    /\ DeskIdle

WMIdle ==
    /\ windows = <<>>
    /\ topZIndexRef = TopZInit
    /\ activeUser = "alice"
    /\ storage = [u \in WMUsers |-> NoStore]
    /\ now = 0

InitTerm ==
    /\ currentUser \in Users
    /\ sessionStack = InitSessionEffect(<<>>, currentUser)
    /\ history = <<>>
    /\ files = InitialFiles
    /\ fsCalls = <<>>
    /\ lastCtx = NoExec
    /\ input = ""
    /\ commandHistory = <<>>
    /\ historyIndex = -1
    /\ currentPath = HomePath
    /\ SideIdle
    /\ WMIdle

NextTerm == \E line \in Lines : Submit(line)

SpecTerm == InitTerm /\ [][NextTerm]_vars

(***************************************************************************)
(* Terminal: the prompt, with the keys Enter, ArrowUp, ArrowDown and Tab   *)
(*                                                                         *)
(* The text of the prompt is kept as the line it parses to, with `pad`     *)
(* telling that blanks surround it; trim() drops them.                     *)
(***************************************************************************)
MaxCmds == 3         \* commandHistory holds at most this many lines

RawLine(cmd, args, redirect, pad) ==
    [cmd |-> cmd, args |-> args, redirect |-> redirect, pad |-> pad]

\* ''
Blank == RawLine("", <<>>, NoRedirect, FALSE)

\* cmdInput.trim()
Trim(raw) == [raw EXCEPT !.pad = FALSE]

\* the entry of an empty line: { command: '', output: [], path }
BlankEntry(path) ==
    [command |-> Blank, output |-> <<>>, error |-> FALSE, path |-> path,
     accentColor |-> Undefined, user |-> Undefined]

\* the entry of a completion listing: { command: input, output: candidates,
\* error: false, path }
ListingEntry(raw, candidates, path) ==
    [command |-> raw, output |-> MapSeq(candidates, LAMBDA c : <<c>>),
     error |-> FALSE, path |-> path,
     accentColor |-> Undefined, user |-> Undefined]

\* executeCommand that adds an empty line to the command history as well
blankEnteredRecorded(raw, cmds, hist, index, stack, fs, path) ==
    [commandHistory |-> Append(cmds, Trim(raw)),
     history        |-> Append(hist, BlankEntry(path)),
     input          |-> raw,
     historyIndex   |-> index,
     stack          |-> stack,
     fs             |-> fs,
     path           |-> path,
     calls          |-> <<>>,
     ctx            |-> NoExec]

\* executeCommand(cmdInput) for an empty line: the state it leaves
blankEntered(raw, cmds, hist, index, stack, fs, path) ==
    [commandHistory |-> cmds,
     history        |-> Append(hist, BlankEntry(path)),
     input          |-> raw,
     historyIndex   |-> index,
     stack          |-> stack,
     fs             |-> fs,
     path           |-> path,
     calls          |-> <<>>,
     ctx            |-> NoExec]

\* executeCommand that appends the entry of a clear to the emptied transcript
lineEnteredClearRecorded(raw, cmds, hist, path, g, x) ==
    [commandHistory |-> Append(cmds, Trim(raw)),
     history        |-> IF g.shouldClear
                        THEN <<[x.entry EXCEPT !.command = raw]>>
                        ELSE Append(hist, [x.entry EXCEPT !.command = raw]),
     input          |-> Blank,
     historyIndex   |-> -1,
     stack          |-> g.stack,
     fs             |-> IF g.shouldClear THEN x.fsBefore ELSE x.fs,
     path           |-> IF g.cwd # Undefined THEN g.cwd ELSE path,
     calls          |-> IF g.shouldClear THEN g.calls ELSE x.calls,
     ctx            |-> [ctx |-> g.ctx, result |-> g.result,
                         raised |-> FALSE]]

\* executeCommand(cmdInput) for a line that is not empty, g being what
\* generateOutput returned and x the outcome where clear is not requested
lineEntered(raw, cmds, hist, path, g, x) ==
    [commandHistory |-> Append(cmds, Trim(raw)),
     history        |-> IF g.shouldClear THEN <<>>
                        ELSE Append(hist, [x.entry EXCEPT !.command = raw]),
     input          |-> Blank,
     historyIndex   |-> -1,
     stack          |-> g.stack,
     fs             |-> IF g.shouldClear THEN x.fsBefore ELSE x.fs,
     path           |-> IF g.cwd # Undefined THEN g.cwd ELSE path,
     calls          |-> IF g.shouldClear THEN g.calls ELSE x.calls,
     ctx            |-> [ctx |-> g.ctx, result |-> g.result,
                         raised |-> FALSE]]

\* how names are spelt
Spell(name) ==
    CASE name = "cat"    -> <<"c", "a", "t">>
      [] name = "cd"     -> <<"c", "d">>
      [] name = "clear"  -> <<"c", "l", "e", "a", "r">>
      [] name = "echo"   -> <<"e", "c", "h", "o">>
      [] name = "exit"   -> <<"e", "x", "i", "t">>
      [] name = "su"     -> <<"s", "u">>
      [] name = "whoami" -> <<"w", "h", "o", "a", "m", "i">>
      [] name = "e"      -> <<"e">>
      [] name = "w"      -> <<"w">>
      [] name = "nosuch" -> <<"n", "o", "s", "u", "c", "h">>
      [] name = "a.b"    -> <<"a", ".", "b">>
      [] name = "ab"     -> <<"a", "b">>
      [] name = "a*"     -> <<"a", "*">>
      [] name = "?*"     -> <<"?", "*">>
      [] name = "a"      -> <<"a">>
      [] name = "d"      -> <<"d">>
      [] name = "n"      -> <<"n">>
      [] name = "o"      -> <<"o">>
      [] name = "D"      -> <<"D">>
      [] name = "tmp"    -> <<"t", "m", "p">>
      [] name = "home"   -> <<"h", "o", "m", "e">>
      [] name = "bin"    -> <<"b", "i", "n">>
      [] name = "usr"    -> <<"u", "s", "r">>
      [] name = "alice"  -> <<"a", "l", "i", "c", "e">>
      [] name = "cache"  -> <<"c", "a", "c", "h", "e">>
      [] name = "Desktop" -> <<"D", "e", "s", "k", "t", "o", "p">>
      [] name = "data"   -> <<"d", "a", "t", "a">>
      [] name = "locked" -> <<"l", "o", "c", "k", "e", "d">>
      [] name = "finder" -> <<"f", "i", "n", "d", "e", "r">>
      [] name = "hello"  -> <<"h", "e", "l", "l", "o">>
      [] name = "world"  -> <<"w", "o", "r", "l", "d">>
      [] name = "root"   -> <<"r", "o", "o", "t">>
      [] name = "admin"  -> <<"a", "d", "m", "i", "n">>
      [] name = "out.txt" ->
            <<"o", "u", "t", ".", "t", "x", "t">>
      [] name = "notes.txt" ->
            <<"n", "o", "t", "e", "s", ".", "t", "x", "t">>
      [] name = ">"      -> <<">">>
      [] name = ">>"     -> <<">", ">">>
      [] name = "tmp/"   -> <<"t", "m", "p", "/">>
      [] name = "home/"  -> <<"h", "o", "m", "e", "/">>
      [] name = "bin/"   -> <<"b", "i", "n", "/">>
      [] name = "usr/"   -> <<"u", "s", "r", "/">>
      [] name = "alice/" -> <<"a", "l", "i", "c", "e", "/">>
      [] name = "cache/" -> <<"c", "a", "c", "h", "e", "/">>
      [] name = "Desktop/" -> <<"D", "e", "s", "k", "t", "o", "p", "/">>
      [] name = "/tmp"   -> <<"/", "t", "m", "p">>
      [] name = "/tmp/a" -> <<"/", "t", "m", "p", "/", "a">>
      [] name = "/tmp/o" -> <<"/", "t", "m", "p", "/", "o">>
      [] OTHER           -> <<>>

(* expandGlob.  Patterns and file names are sequences of characters; the   *)
(* regular expression built from a pattern is a sequence of items, each an *)
(* atom (a character, or "any" for the dot of `.*`) with a quantifier.     *)

MaxPat == 3          \* patterns have at most this many characters

Chars == {"a", "b", ".", "*", "?", "/"}
Patterns == UNION {[1..n -> Chars] : n \in 0..MaxPat}

\* the names in the working directory, in directory order
DirNames == << <<"a", ".", "b">>, <<"b", ".", "a">>, <<"a", "b">>,
               <<"a", "?">>, <<"a">> >>

\* listDirectory(resolvedPath, activeTerminalUser): null, or the entries
Listings == { [listed |-> FALSE, files |-> <<>>],
              [listed |-> TRUE,  files |-> <<>>],
              [listed |-> TRUE,  files |-> DirNames] }

\* pattern.includes(c)
Includes(str, c) == \E i \in 1..Len(str) : str[i] = c

Item(atom, quant) == [atom |-> atom, quant |-> quant]

\* new RegExp('^' + pattern.replace(/\./g, '\\.').replace(/\*/g, '.*') + '$')
\* read from left to right.  A dot becomes the literal dot, a star becomes
\* `.*`, and every other character goes into the expression as it is: `?`
\* is then a quantifier.  It makes the atom before it optional, makes a
\* quantifier before it lazy, and is a SyntaxError where there is nothing
\* to repeat.
RECURSIVE toRegExp(_, _, _)
toRegExp(source, re, status) ==
    IF source = <<>> THEN [valid |-> TRUE, re |-> re]
    ELSE IF Head(source) = "*"
    THEN toRegExp(Tail(source), Append(re, Item("any", "star")),
                  "quantified")
    ELSE IF Head(source) = "?"
    THEN IF status = "atom"
         THEN toRegExp(Tail(source),
                       [re EXCEPT ![Len(re)].quant = "opt"], "quantified")
         ELSE IF status = "quantified"
         THEN toRegExp(Tail(source), re, "lazy")
         ELSE [valid |-> FALSE, re |-> <<>>]
    ELSE toRegExp(Tail(source), Append(re, Item(Head(source), "one")),
                  "atom")

AtomMatches(atom, c) == atom = "any" \/ atom = c

\* regex.test(name), the expression being anchored at both ends
RECURSIVE test(_, _)
test(re, name) ==
    IF re = <<>> THEN name = <<>>
    ELSE CASE Head(re).quant = "one" ->
                /\ name # <<>>
                /\ AtomMatches(Head(re).atom, Head(name))
                /\ test(Tail(re), Tail(name))
           [] Head(re).quant = "opt" ->
                \/ test(Tail(re), name)
                \/ /\ name # <<>>
                   /\ AtomMatches(Head(re).atom, Head(name))
                   /\ test(Tail(re), Tail(name))
           [] Head(re).quant = "star" ->
                \/ test(Tail(re), name)
                \/ /\ name # <<>>
                   /\ AtomMatches(Head(re).atom, Head(name))
                   /\ test(re, Tail(name))

Returned(value) == [threw |-> FALSE, value |-> value]
Thrown == [threw |-> TRUE, value |-> <<>>]

\* files.filter(f => regex.test(f.name)).map(f => f.name)
matchesOf(entries, re) == SelectSeq(entries, LAMBDA name : test(re, name))

\* matches.length > 0 ? matches : [pattern]
matchesOr(matches, pattern) ==
    IF Len(matches) > 0 THEN Returned(matches) ELSE Returned(<<pattern>>)

\* expandGlob(pattern), listing being what listDirectory returns
expandGlob(pattern, listing) ==
    IF ~Includes(pattern, "*") THEN Returned(<<pattern>>)
    ELSE IF Includes(pattern, "/") THEN Returned(<<pattern>>)
    ELSE IF ~listing.listed THEN Returned(<<pattern>>)
    ELSE IF ~toRegExp(pattern, <<>>, "start").valid THEN Thrown
    ELSE matchesOr(matchesOf(listing.files,
                             toRegExp(pattern, <<>>, "start").re),
                   pattern)


\* the strings of the model that are spelt out
Spelt == {"cat", "cd", "clear", "echo", "exit", "su", "whoami", "e", "w",
          "nosuch", "a.b", "ab", "a*", "?*", "a", "d", "n", "o", "D", "tmp",
          "home", "bin", "usr", "alice", "cache", "Desktop", "data", "locked",
          "finder", "hello", "world", "root", "admin", "out.txt",
          "notes.txt", ">", ">>", "tmp/", "home/", "bin/", "usr/", "alice/",
          "cache/", "Desktop/", "/tmp", "/tmp/a", "/tmp/o"}

\* the string of the characters
Unspell(chars) ==
    IF \E str \in Spelt : Spell(str) = chars
    THEN CHOOSE str \in Spelt : Spell(str) = chars
    ELSE ""

\* the tree of directories, each with its entries in directory order; a
\* file is an entry while the store holds it
Entry(name, isDir) == [name |-> name, dir |-> isDir]
Tree(path) ==
    CASE path = "/"     -> <<Entry("tmp", TRUE), Entry("home", TRUE),
                             Entry("bin", TRUE), Entry("usr", TRUE)>>
      [] path = "/tmp"  -> <<Entry("cache", TRUE), Entry("a.b", FALSE),
                             Entry("out.txt", FALSE), Entry("ab", FALSE)>>
      [] path = "/home" -> <<Entry("alice", TRUE)>>
      [] path = "/home/alice" ->
                           <<Entry("notes.txt", FALSE),
                             Entry("Desktop", TRUE)>>
      [] path = "/bin"  -> <<Entry("whoami", FALSE), Entry("locked", FALSE),
                             Entry("data", FALSE)>>
      [] path = "/usr"  -> <<Entry("bin", TRUE)>>
      [] path = "/usr/bin" ->
                           <<Entry("finder", FALSE), Entry("data", FALSE)>>
      [] OTHER          -> <<>>
Listed == {"/", "/tmp", "/home", "/home/alice", "/bin", "/usr", "/usr/bin"}

\* listDirectory(path, asUser) of the file system: null, or the entries of
\* the directory
dirEntries(path, fs) ==
    SelectSeq(Tree(path),
              LAMBDA e : e.dir \/ IsFile(fs, CheckPath(path, e.name)))

\* listDirectory(resolvePath(currentPath), activeTerminalUser): the names in
\* the working directory
listDirectory(path, fs) ==
    [listed |-> path \in Listed,
     files  |-> MapSeq(dirEntries(path, fs), LAMBDA e : Spell(e.name))]

\* expandGlob(arg) for an argument of a line; without a star the argument
\* is returned as it is
expandArg(arg, listing) ==
    IF \A i \in 1..Len(Spell(arg)) : Spell(arg)[i] # "*"
    THEN Returned(<<arg>>)
    ELSE IF expandGlob(Spell(arg), listing).threw THEN Thrown
    ELSE Returned(MapSeq(expandGlob(Spell(arg), listing).value, Unspell))

\* rawArgs.forEach(arg => args.push(...expandGlob(arg)))
RECURSIVE expandArgs(_, _)
expandArgs(rawArgs, listing) ==
    IF rawArgs = <<>> THEN Returned(<<>>)
    ELSE IF expandArg(Head(rawArgs), listing).threw
            \/ expandArgs(Tail(rawArgs), listing).threw
    THEN Thrown
    ELSE Returned(expandArg(Head(rawArgs), listing).value
                  \o expandArgs(Tail(rawArgs), listing).value)

\* executeCommand(cmdInput) where expandGlob throws for an argument: the
\* line is in commandHistory already, and nothing else is done
lineThrew(raw, cmds, hist, index, stack, fs, path) ==
    [commandHistory |-> Append(cmds, Trim(raw)),
     history        |-> hist,
     input          |-> raw,
     historyIndex   |-> index,
     stack          |-> stack,
     fs             |-> fs,
     path           |-> path,
     calls          |-> <<>>,
     ctx            |-> [NoExec EXCEPT !.raised = TRUE]]

\* the line with its arguments expanded
Expanded(line, path, fs) ==
    [line EXCEPT
        !.args = expandArgs(line.args, listDirectory(path, fs)).value]

\* executeCommand(cmdInput) as a whole: the state it leaves
enterLine(raw, cmds, hist, index, stack, current, fs, path) ==
    IF Trim(raw) = Blank
    THEN blankEntered(raw, cmds, hist, index, stack, fs, path)
    ELSE IF expandArgs(raw.args, listDirectory(path, fs)).threw
    THEN lineThrew(raw, cmds, hist, index, stack, fs, path)
    ELSE lineEntered(raw, cmds, hist, path,
                     generateOutput(Expanded(Trim(raw), path, fs), stack,
                                    current, fs),
                     [fsBefore |-> fs] @@
                     executeCommand(Expanded(Trim(raw), path, fs), stack,
                                    current, fs, path))

\* name.startsWith(partial)
StartsWith(name, partial) ==
    LET n == Spell(name)
        q == Spell(partial)
    IN  /\ partial = "" \/ partial \in Spelt
        /\ Len(q) <= Len(n) /\ SubSeq(n, 1, Len(q)) = q

\* the characters in the order of their code units
CharOrder == <<"*", ".", "/", ">", "?", "D", "a", "b", "c", "d", "e", "f",
               "g", "h", "i", "j", "k", "l", "m", "n", "o", "p", "q", "r",
               "s", "t", "u", "v", "w", "x", "y", "z">>
Code(c) == CHOOSE i \in 1..Len(CharOrder) : CharOrder[i] = c

\* the comparison of Array.prototype.sort without a comparator: by code
\* units, a proper prefix first
RECURSIVE LessChars(_, _)
LessChars(a, b) ==
    IF b = <<>> THEN FALSE
    ELSE IF a = <<>> THEN TRUE
    ELSE IF Head(a) # Head(b) THEN Code(Head(a)) < Code(Head(b))
    ELSE LessChars(Tail(a), Tail(b))
Before(x, y) == LessChars(Spell(x), Spell(y))

\* Array.from(new Set(candidates)): the first occurrence of each is kept
RECURSIVE Unique(_)
Unique(s) ==
    IF s = <<>> THEN <<>>
    ELSE LET front == Unique(SubSeq(s, 1, Len(s) - 1))
         IN  IF \E i \in 1..Len(front) : front[i] = s[Len(s)]
             THEN front ELSE Append(front, s[Len(s)])

\* .sort()
RECURSIVE Sort(_)
Insert(x, sorted) ==
    LET smaller == SelectSeq(sorted, LAMBDA y : Before(y, x))
        others  == SelectSeq(sorted, LAMBDA y : ~Before(y, x))
    IN  smaller \o <<x>> \o others
Sort(s) == IF s = <<>> THEN <<>> ELSE Insert(Head(s), Sort(Tail(s)))

\* Object.keys(commands), in the order of the registry
CommandKeys == <<"su", "whoami", "echo", "cat", "exit", "clear", "cd">>

\* the files of a directory of PATH whose names start with partial
pathFiles(pathDir, partial, fs) ==
    MapSeq(SelectSeq(dirEntries(pathDir, fs),
                     LAMBDA f : StartsWith(f.name, partial) /\ ~f.dir),
           LAMBDA f : f.name)

\* the last index of "/" in a word of the prompt: the part before it and
\* the part after it; the words with a "/" that are typed
HasSlash(partial) ==
    partial \in {"/", "/tmp", "/tmp/a", "/tmp/o", "/tmp/out.txt",
                 "/home/alice/notes.txt"}
DirPart(partial) ==
    CASE partial \in {"/tmp/a", "/tmp/o", "/tmp/out.txt"} -> "/tmp"
      [] partial = "/home/alice/notes.txt" -> "/home/alice"
      [] OTHER -> ""
SearchPrefix(partial) ==
    CASE partial = "/"      -> ""
      [] partial = "/tmp"   -> "tmp"
      [] partial = "/tmp/a" -> "a"
      [] partial = "/tmp/o" -> "o"
      [] partial = "/tmp/out.txt" -> "out.txt"
      [] partial = "/home/alice/notes.txt" -> "notes.txt"
      [] OTHER -> partial

\* resolvePath(dirPart) of the terminal, for an absolute path or the empty
\* string, which stands for the working directory
resolvePath(dirPart, path) == IF dirPart = "" THEN path ELSE dirPart

\* the candidates before they are de-duplicated and sorted
rawCandidates(partial, isCommand, path, fs) ==
    IF isCommand
    THEN SelectSeq(CommandKeys, LAMBDA c : StartsWith(c, partial))
         \o pathFiles(PATH[1], partial, fs)
         \o pathFiles(PATH[2], partial, fs)
    ELSE LET searchDir == IF HasSlash(partial)
                          THEN resolvePath(DirPart(partial), path)
                          ELSE path
         IN  MapSeq(SelectSeq(dirEntries(searchDir, fs),
                              LAMBDA f : StartsWith(f.name,
                                                    SearchPrefix(partial))),
                    LAMBDA f : IF f.dir THEN f.name \o "/" ELSE f.name)

\* candidates that are sorted, with their duplicates kept
getAutocompleteCandidatesWithDuplicates(partial, isCommand, path, fs) ==
    Sort(rawCandidates(partial, isCommand, path, fs))

\* getAutocompleteCandidates(partial, isCommand)
getAutocompleteCandidates(partial, isCommand, path, fs) ==
    Sort(Unique(rawCandidates(partial, isCommand, path, fs)))

\* input.split(' ') of the prompt: whether it is one word, and its last
\* word, which is empty after a blank
IsCommandWord(raw) ==
    raw.args = <<>> /\ raw.redirect = NoRedirect /\ ~raw.pad
LastPart(raw) ==
    IF raw.pad THEN ""
    ELSE IF raw.redirect # NoRedirect
    THEN (IF raw.redirect.path = "" THEN raw.redirect.kind
          ELSE raw.redirect.path)
    ELSE IF raw.args # <<>> THEN raw.args[Len(raw.args)]
    ELSE raw.cmd

\* newInput: completion + ' ' for the name of a command, and otherwise
\* input.substring(0, input.lastIndexOf(partial)) + completion
completeInput(raw, completion) ==
    IF IsCommandWord(raw) THEN RawLine(completion, <<>>, NoRedirect, TRUE)
    ELSE IF raw.pad
    THEN (IF raw.cmd = ""
          THEN RawLine(completion, <<>>, NoRedirect, FALSE)
          ELSE RawLine(raw.cmd, Append(raw.args, completion), NoRedirect,
                       FALSE))
    ELSE IF raw.redirect # NoRedirect
    THEN (IF raw.redirect.path = ""
          THEN [raw EXCEPT !.redirect.kind = completion]
          ELSE [raw EXCEPT !.redirect.path = completion])
    ELSE [raw EXCEPT !.args[Len(raw.args)] = completion]

\* a ghost text that is the whole candidate
ghostTextWhole(raw, path, fs) ==
    LET partial    == LastPart(raw)
        candidates == getAutocompleteCandidates(partial, IsCommandWord(raw),
                                                path, fs)
    IN  IF raw = Blank THEN <<>>
        ELSE IF Len(candidates) = 1 /\ StartsWith(candidates[1], partial)
        THEN Spell(candidates[1])
        ELSE <<>>

\* the effect that sets ghostText, run for every new input and every new
\* working directory: candidates[0].substring(partial.length) for a single
\* candidate that starts with the last word, and '' otherwise
ghostText(raw, path, fs) ==
    LET partial    == LastPart(raw)
        candidates == getAutocompleteCandidates(partial, IsCommandWord(raw),
                                                path, fs)
    IN  IF raw = Blank THEN <<>>
        ELSE IF Len(candidates) = 1 /\ StartsWith(candidates[1], partial)
        THEN SubSeq(Spell(candidates[1]), Len(Spell(partial)) + 1,
                    Len(Spell(candidates[1])))
        ELSE <<>>

\* onChange: the text of the prompt becomes raw
Type(raw) ==
    /\ raw # input
    /\ input' = raw
    /\ UNCHANGED <<commandHistory, historyIndex, currentPath>>
    /\ UNCHANGED <<currentUser, sessionStack, history, files, fsCalls,
                   lastCtx>>
    /\ UNCHANGED sideVars
    /\ UNCHANGED wmVars

\* the state x that executeCommand leaves, and then the session effect
EnterTo(x) ==
    /\ Len(x.stack) <= MaxStack
    /\ commandHistory' = x.commandHistory
    /\ history' = x.history
    /\ input' = x.input
    /\ historyIndex' = x.historyIndex
    /\ sessionStack' = InitSessionEffect(x.stack, currentUser)
    /\ files' = x.fs
    /\ currentPath' = x.path
    /\ fsCalls' = x.calls
    /\ lastCtx' = x.ctx

\* handleKeyDown, Enter: executeCommand(input)
Enter ==
    /\ Len(commandHistory) < MaxCmds
    /\ Len(history) < MaxHistory
    /\ EnterTo(enterLine(input, commandHistory, history, historyIndex,
                         sessionStack, currentUser, files, currentPath))
    /\ UNCHANGED currentUser
    /\ UNCHANGED sideVars
    /\ UNCHANGED wmVars

\* handleKeyDown, ArrowUp
ArrowUp ==
    /\ IF historyIndex < Len(commandHistory) - 1
       THEN /\ historyIndex' = historyIndex + 1
            /\ input' = commandHistory[Len(commandHistory)
                                       - (historyIndex + 1)]
       ELSE UNCHANGED <<historyIndex, input>>
    /\ UNCHANGED <<commandHistory, currentPath>>
    /\ UNCHANGED <<currentUser, sessionStack, history, files, fsCalls,
                   lastCtx>>
    /\ UNCHANGED sideVars
    /\ UNCHANGED wmVars

\* handleKeyDown, ArrowDown
ArrowDown ==
    /\ IF historyIndex > 0
       THEN /\ historyIndex' = historyIndex - 1
            /\ input' = commandHistory[Len(commandHistory)
                                       - (historyIndex - 1)]
       ELSE IF historyIndex = 0
       THEN /\ historyIndex' = -1
            /\ input' = Blank
       ELSE UNCHANGED <<historyIndex, input>>
    /\ UNCHANGED <<commandHistory, currentPath>>
    /\ UNCHANGED <<currentUser, sessionStack, history, files, fsCalls,
                   lastCtx>>
    /\ UNCHANGED sideVars
    /\ UNCHANGED wmVars

\* handleKeyDown, Tab: handleTabCompletion
Tab ==
    /\ Len(history) < MaxHistory
    /\ LET candidates ==
               getAutocompleteCandidates(LastPart(input),
                                         IsCommandWord(input), currentPath,
                                         files)
       IN  IF input = Blank \/ candidates = <<>>
           THEN UNCHANGED <<input, history>>
           ELSE IF Len(candidates) = 1
           THEN /\ input' = completeInput(input, candidates[1])
                /\ UNCHANGED history
           ELSE /\ history' = Append(history,
                                ListingEntry(input, candidates, currentPath))
                /\ UNCHANGED input
    /\ UNCHANGED <<commandHistory, historyIndex, currentPath>>
    /\ UNCHANGED <<currentUser, sessionStack, files, fsCalls, lastCtx>>
    /\ UNCHANGED sideVars
    /\ UNCHANGED wmVars

\* Tab on a prompt that holds one word, the name of a command or the
\* beginning of one
TabWord == IsCommandWord(input) /\ Tab

OutTxt == "/tmp/out.txt"
To(kind, path) == [kind |-> kind, path |-> path]

\* what is typed at the prompt
PromptInputs ==
    { Blank,
      RawLine("", <<>>, NoRedirect, TRUE),
      RawLine("whoami", <<>>, NoRedirect, TRUE),
      RawLine("whoami", <<>>, To(">", ""), FALSE),
      RawLine("whoami", <<>>, To(">", "/home/alice/notes.txt"), FALSE),
      RawLine("echo", <<"hello">>, To(">", OutTxt), FALSE),
      RawLine("echo", <<"world">>, To(">>", OutTxt), FALSE),
      RawLine("echo", <<>>, To(">", OutTxt), FALSE),
      RawLine("cat", <<OutTxt>>, NoRedirect, FALSE),
      RawLine("clear", <<>>, NoRedirect, FALSE),
      RawLine("clear", <<>>, To(">", OutTxt), FALSE),
      RawLine("cd", <<"/tmp">>, NoRedirect, FALSE),
      RawLine("su", <<"root", "admin">>, NoRedirect, FALSE),
      RawLine("e", <<>>, NoRedirect, FALSE),
      RawLine("w", <<>>, NoRedirect, FALSE) }

InitPrompt ==
    /\ currentUser \in {"alice", "bob"}
    /\ sessionStack = InitSessionEffect(<<>>, currentUser)
    /\ history = <<>>
    /\ files = InitialFiles
    /\ fsCalls = <<>>
    /\ lastCtx = NoExec
    /\ input = Blank
    /\ commandHistory = <<>>
    /\ historyIndex = -1
    /\ currentPath = HomePath
    /\ SideIdle
    /\ WMIdle

\* the transcript: lines are typed, submitted and completed
NextPrompt ==
    \/ \E raw \in PromptInputs : Type(raw)
    \/ Enter
    \/ TabWord

SpecPrompt == InitPrompt /\ [][NextPrompt]_vars

\* the command history: few lines, and the arrow keys
KeyInputs ==
    { Blank,
      RawLine("whoami", <<>>, NoRedirect, TRUE),
      RawLine("exit", <<>>, NoRedirect, FALSE),
      RawLine("clear", <<>>, NoRedirect, FALSE) }

NextKeys ==
    \/ \E raw \in KeyInputs : Type(raw)
    \/ Enter
    \/ ArrowUp
    \/ ArrowDown

SpecKeys == InitPrompt /\ [][NextKeys]_vars

-----------------------------------------------------------------------------
(* Command names that are files.  /usr/bin holds the launcher of finder,   *)
(* /bin a plain file `data` that hides a launcher of the same name in      *)
(* /usr/bin, a launcher with the name of the built-in whoami, and a        *)
(* launcher that root alone may read.                                      *)

Launcher(appId, owner, permissions) ==
    [exists |-> TRUE, content |-> <<<<AppMarker, appId>>>>, owner |-> owner,
     permissions |-> permissions]

ForAll  == <<"r","w","x","r","-","x","r","-","x">>
ForRoot == <<"r","w","x","-","-","-","-","-","-">>

LookupFiles ==
    [p \in Paths \cup BinPaths \cup TmpPaths |->
        CASE p \in Paths -> InitialFiles[p]
          [] p = "/usr/bin/finder" -> Launcher("finder", "root", ForAll)
          [] p = "/usr/bin/data"   -> Launcher("data", "root", ForAll)
          [] p = "/bin/whoami"     -> Launcher("whoami", "root", ForAll)
          [] p = "/bin/locked"     -> Launcher("settings", "root", ForRoot)
          [] OTHER -> [exists |-> TRUE, content |-> <<<<"hello">>>>,
                       owner |-> "root", permissions |-> ForAll]]

LookupInputs ==
    { RawLine("nosuch", <<>>, NoRedirect, FALSE),
      RawLine("nosuch", <<"?*">>, NoRedirect, FALSE),
      RawLine("finder", <<"a*">>, NoRedirect, FALSE),
      RawLine("/usr/bin/finder", <<>>, NoRedirect, FALSE),
      RawLine("data", <<>>, NoRedirect, FALSE),
      RawLine("whoami", <<>>, NoRedirect, FALSE),
      RawLine("locked", <<>>, NoRedirect, FALSE),
      RawLine("su", <<"root", "admin">>, NoRedirect, FALSE),
      RawLine("cd", <<"/tmp">>, NoRedirect, FALSE) }

InitLookup ==
    /\ currentUser = "alice"
    /\ sessionStack = InitSessionEffect(<<>>, currentUser)
    /\ history = <<>>
    /\ files = LookupFiles
    /\ fsCalls = <<>>
    /\ lastCtx = NoExec
    /\ input = Blank
    /\ commandHistory = <<>>
    /\ historyIndex = -1
    /\ currentPath = HomePath
    /\ SideIdle
    /\ WMIdle

NextLookup ==
    \/ \E raw \in LookupInputs : Type(raw)
    \/ Enter

SpecLookup == InitLookup /\ [][NextLookup]_vars

\* completion: words are typed in one of two directories, over a store with
\* or without the files of /bin, /usr/bin and /tmp, and Tab is pressed
TabInputs ==
    { Blank,
      RawLine("", <<>>, NoRedirect, TRUE),
      RawLine("w", <<>>, NoRedirect, FALSE),
      RawLine("e", <<>>, NoRedirect, FALSE),
      RawLine("d", <<>>, NoRedirect, FALSE),
      RawLine("nosuch", <<>>, NoRedirect, FALSE),
      RawLine("whoami", <<>>, NoRedirect, FALSE),
      RawLine("cat", <<>>, NoRedirect, TRUE),
      RawLine("cat", <<"n">>, NoRedirect, FALSE),
      RawLine("cat", <<"D">>, NoRedirect, FALSE),
      RawLine("cat", <<"a">>, NoRedirect, FALSE),
      RawLine("cd", <<"/tmp">>, NoRedirect, FALSE),
      RawLine("cat", <<"/tmp/a">>, NoRedirect, FALSE),
      RawLine("echo", <<"hello">>, [kind |-> ">", path |-> "/tmp/o"], FALSE),
      RawLine("whoami", <<>>, [kind |-> ">", path |-> ""], FALSE) }

InitTab ==
    /\ currentUser = "alice"
    /\ sessionStack = InitSessionEffect(<<>>, currentUser)
    /\ history = <<>>
    /\ files \in {InitialFiles, LookupFiles}
    /\ fsCalls = <<>>
    /\ lastCtx = NoExec
    /\ input = Blank
    /\ commandHistory = <<>>
    /\ historyIndex = -1
    /\ currentPath \in {HomePath, "/tmp"}
    /\ SideIdle
    /\ WMIdle

NextTab ==
    \/ \E raw \in TabInputs : Type(raw)
    \/ Tab

SpecTab == InitTab /\ [][NextTab]_vars

-----------------------------------------------------------------------------
(* Two Terminal instances.  The first is the one of the variables          *)
(* sessionStack and currentPath; peer holds the useState cells of the      *)
(* second: its sessionStack and its currentPath.  Both read the same       *)
(* FileSystemContext: currentUser, users and files.                        *)

\* the state cells of one instance
Instance(stack, path) == [stack |-> stack, path |-> path]

\* what a line entered in one instance does to the cells of another one:
\* useState cells belong to the component instance, and the setters given
\* to a command (setCurrentPath, spawnSession, closeSession) are those of
\* the instance that runs it
otherInstanceShared(other, x) == Instance(x.stack, x.path)

otherInstance(other, x) == other

\* executeCommand(raw) in the second instance
PeerEnterTo(raw, x, o) ==
    /\ Len(x.stack) <= MaxStack
    /\ peer' = Instance(InitSessionEffect(x.stack, currentUser), x.path)
    /\ sessionStack' = o.stack
    /\ currentPath' = o.path
    /\ files' = x.fs
    /\ fsCalls' = x.calls
    /\ lastCtx' = x.ctx

PeerEnterLine(raw) ==
    /\ PeerEnterTo(raw,
                   enterLine(raw, <<>>, <<>>, -1, peer.stack, currentUser,
                             files, peer.path),
                   otherInstance(Instance(sessionStack, currentPath),
                                 enterLine(raw, <<>>, <<>>, -1, peer.stack,
                                           currentUser, files, peer.path)))
    /\ UNCHANGED <<currentUser, history, input, commandHistory,
                   historyIndex>>
    /\ UNCHANGED <<inFlight, globIn, globOut, fxVars, deskVars>>
    /\ UNCHANGED wmVars

TwoInputs ==
    { RawLine("su", <<"root", "admin">>, NoRedirect, FALSE),
      RawLine("exit", <<>>, NoRedirect, FALSE),
      RawLine("cd", <<"/tmp">>, NoRedirect, FALSE),
      RawLine("cd", <<"/">>, NoRedirect, FALSE) }

PeerEnter == \E raw \in TwoInputs : PeerEnterLine(raw)

InitTwo ==
    /\ currentUser \in {"alice", "bob"}
    /\ sessionStack = InitSessionEffect(<<>>, currentUser)
    /\ history = <<>>
    /\ files = InitialFiles
    /\ fsCalls = <<>>
    /\ lastCtx = NoExec
    /\ input = Blank
    /\ commandHistory = <<>>
    /\ historyIndex = -1
    /\ currentPath = HomePath
    /\ peer = Instance(InitSessionEffect(<<>>, currentUser), HomePath)
    /\ inFlight = <<>>
    /\ globIn = <<>>
    /\ globOut = <<>>
    /\ FxIdle
    /\ DeskIdle
    /\ WMIdle

NextTwo ==
    \/ \E raw \in TwoInputs : Type(raw)
    \/ Enter
    \/ PeerEnter

SpecTwo == InitTwo /\ [][NextTwo]_vars

-----------------------------------------------------------------------------
(* Commands that suspend.  executeCommand awaits terminalCommand.execute;  *)
(* su and whoami return without suspending, so their executeCommand runs   *)
(* to its end before the next key event.  A command that does asynchronous *)
(* work leaves executeCommand suspended at the await, and key events are   *)
(* handled meanwhile.  inFlight holds the suspended executions, each with  *)
(* what its closure captured: the line, currentPath and the session stack. *)

MaxInFlight == 2     \* at most this many executions are suspended at once

\* the commands taken to do asynchronous work: those that access files
Suspending == {"cat", "echo"}

Suspended(raw, path, stack) == [raw |-> raw, path |-> path, stack |-> stack]

\* seq without its i-th element
Without(seq, i) == SubSeq(seq, 1, i - 1) \o SubSeq(seq, i + 1, Len(seq))

\* handleKeyDown, Enter, for a line whose command does not suspend
EnterNow ==
    /\ Trim(input).cmd \notin Suspending
    /\ Enter

\* handleKeyDown, Enter, for a line whose command suspends: executeCommand
\* up to the await
Begin ==
    /\ Trim(input).cmd \in Suspending
    /\ Len(commandHistory) < MaxCmds
    /\ Len(inFlight) < MaxInFlight
    /\ commandHistory' = Append(commandHistory, Trim(input))
    /\ inFlight' = Append(inFlight,
                          Suspended(input, currentPath, sessionStack))
    /\ UNCHANGED <<input, historyIndex, currentPath, history>>
    /\ UNCHANGED <<currentUser, sessionStack, files, fsCalls, lastCtx>>
    /\ UNCHANGED <<peer, globIn, globOut, fxVars, deskVars>>
    /\ UNCHANGED wmVars

\* executeCommand from the await on, x being the outcome of the line run
\* with what the closure captured
FinishTo(i, x) ==
    /\ history' = Append(history, x.history[1])
    /\ input' = Blank
    /\ historyIndex' = -1
    /\ files' = x.fs
    /\ fsCalls' = x.calls
    /\ lastCtx' = x.ctx
    /\ inFlight' = Without(inFlight, i)

Finish(i) ==
    /\ Len(history) < MaxHistory
    /\ FinishTo(i, enterLine(inFlight[i].raw, <<>>, <<>>, -1,
                             inFlight[i].stack, currentUser, files,
                             inFlight[i].path))
    /\ UNCHANGED <<commandHistory, currentPath, currentUser, sessionStack>>
    /\ UNCHANGED <<peer, globIn, globOut, fxVars, deskVars>>
    /\ UNCHANGED wmVars

AsyncInputs ==
    { Blank,
      RawLine("whoami", <<>>, NoRedirect, FALSE),
      RawLine("su", <<"root", "admin">>, NoRedirect, FALSE),
      RawLine("cat", <<OutTxt>>, NoRedirect, FALSE),
      RawLine("echo", <<"hello">>, To(">", OutTxt), FALSE) }

NextAsync ==
    \/ \E raw \in AsyncInputs : Type(raw)
    \/ EnterNow
    \/ Begin
    \/ \E i \in 1..Len(inFlight) : Finish(i)

SpecAsync == InitPrompt /\ [][NextAsync]_vars

-----------------------------------------------------------------------------
(* expandGlob as a function of its own, applied to a pattern and a        *)
(* listing drawn from bounded sets.                                        *)

NotCalled == [called |-> FALSE, threw |-> FALSE, value |-> <<>>]

Expand ==
    /\ ~globOut.called
    /\ globOut' = [called |-> TRUE,
                   threw  |-> expandGlob(globIn.pattern, globIn.listing).threw,
                   value  |-> expandGlob(globIn.pattern, globIn.listing).value]
    /\ UNCHANGED <<globIn, inFlight, peer, fxVars, deskVars>>
    /\ UNCHANGED promptVars
    /\ UNCHANGED <<currentUser, sessionStack, history, files, fsCalls,
                   lastCtx>>
    /\ UNCHANGED wmVars

InitGlob ==
    /\ currentUser = "alice"
    /\ sessionStack = InitSessionEffect(<<>>, currentUser)
    /\ history = <<>>
    /\ files = InitialFiles
    /\ fsCalls = <<>>
    /\ lastCtx = NoExec
    /\ input = Blank
    /\ commandHistory = <<>>
    /\ historyIndex = -1
    /\ currentPath = HomePath
    /\ inFlight = <<>>
    /\ peer = <<>>
    /\ globIn \in [pattern : Patterns, listing : Listings]
    /\ globOut = NotCalled
    /\ FxIdle
    /\ DeskIdle
    /\ WMIdle

NextGlob == Expand

SpecGlob == InitGlob /\ [][NextGlob]_vars

(***************************************************************************)
(* Claims about the window manager                                         *)
(***************************************************************************)
Idx == 1..Len(windows)

\* the window at index i has a z-index above that of every other live window
StrictlyTopmost(ws, i) ==
    \A j \in 1..Len(ws) : j # i => ws[i].zIndex > ws[j].zIndex

\* the largest z-index of a list, `floor` for none
MaxZ(ws, floor) == MaxOf(floor, MapSeq(ws, LAMBDA w : w.zIndex))

\* C1: within one user session the z-index counter never decreases, every
\* newly assigned z-index is above all assigned before, and no two live
\* windows have the same z-index.  The last part is the one stated here: it
\* fails once two windows share an id (two openWindow calls of one type in
\* the same millisecond, see C35) and that id is focused or raised.
C1_DistinctZIndices ==
    \A i, j \in Idx : i # j => windows[i].zIndex # windows[j].zIndex

\* C1, first part: no operation of a session lowers the counter, and a
\* z-index that changes or appears is the counter's new, larger value
C1_CounterMonotone ==
    [][ (activeUser' = activeUser /\ Len(windows') >= Len(windows))
        => /\ topZIndexRef' >= topZIndexRef
           /\ \A i \in Idx :
                 windows'[i].zIndex # windows[i].zIndex
                 => (windows'[i].zIndex = topZIndexRef'
                     /\ topZIndexRef' > topZIndexRef) ]_vars

\* C2: openWindow gives the new window a z-index strictly above that of
\* every window already live, and leaves those as they were, so that windows
\* opened one after the other have strictly increasing z-indices and the
\* one just opened is topmost.
C2_OpenIsTopmost ==
    [][ \A in \in OpenInputs :
          OpenWindow(in[1], in[2])
          => /\ Len(windows') = Len(windows) + 1
             /\ \A j \in Idx : windows'[j] = windows[j]
             /\ StrictlyTopmost(windows', Len(windows'))
             /\ windows'[Len(windows')].zIndex = topZIndexRef' ]_vars

\* in a session entered by a change of the user, a second window was opened
\* over a first one and is above it
C2_Witness ==
    /\ activeUser = "bob"
    /\ Len(windows) = 2
    /\ windows[2].zIndex = topZIndexRef
    /\ windows[2].zIndex > windows[1].zIndex
    /\ ~windows[2].isMinimized

\* C3: focusWindow(w.id) for a live window w that is not topmost leaves w
\* strictly above every other live window and not minimized, keeps w's
\* isMaximized, position and size, and changes no other window.
C3_FocusRaisesOnlyTarget ==
    [][ \A i \in Idx :
          (~StrictlyTopmost(windows, i) /\ FocusWindow(windows[i].id))
          => /\ Len(windows') = Len(windows)
             /\ StrictlyTopmost(windows', i)
             /\ ~windows'[i].isMinimized
             /\ windows'[i].isMaximized = windows[i].isMaximized
             /\ windows'[i].position = windows[i].position
             /\ windows'[i].size = windows[i].size
             /\ \A j \in Idx : j # i => windows'[j] = windows[j] ]_vars

\* C4: when the topmost window is minimized and another window stays
\* visible, the visible window that had the highest z-index ends strictly
\* above every other live window.
C4_MinimizeTransfersTop ==
    [][ \A i \in Idx :
          (StrictlyTopmost(windows, i) /\ MinimizeWindow(windows[i].id))
          => \A k \in Idx :
               ( /\ ~windows'[k].isMinimized
                 /\ \A j \in Idx : ~windows'[j].isMinimized
                                   => windows[k].zIndex >= windows[j].zIndex )
               => StrictlyTopmost(windows', k) ]_vars

\* the ids of the live windows are pairwise distinct (C35)
DistinctIds == \A i, j \in Idx : i # j => windows[i].id # windows[j].id

\* C1, C3 and C4 where the live ids are distinct: the three statements hold
\* there, so that each of them fails through shared ids only
C1_DistinctZIndicesOfDistinctIds == DistinctIds => C1_DistinctZIndices

C3_FocusRaisesOnlyTargetOfDistinctIds ==
    [][ DistinctIds => \A i \in Idx :
          (~StrictlyTopmost(windows, i) /\ FocusWindow(windows[i].id))
          => /\ Len(windows') = Len(windows)
             /\ StrictlyTopmost(windows', i)
             /\ ~windows'[i].isMinimized
             /\ windows'[i].isMaximized = windows[i].isMaximized
             /\ windows'[i].position = windows[i].position
             /\ windows'[i].size = windows[i].size
             /\ \A j \in Idx : j # i => windows'[j] = windows[j] ]_vars

C4_MinimizeTransfersTopOfDistinctIds ==
    [][ DistinctIds => \A i \in Idx :
          (StrictlyTopmost(windows, i) /\ MinimizeWindow(windows[i].id))
          => \A k \in Idx :
               ( /\ ~windows'[k].isMinimized
                 /\ \A j \in Idx : ~windows'[j].isMinimized
                                   => windows[k].zIndex >= windows[j].zIndex )
               => StrictlyTopmost(windows', k) ]_vars

\* the restore effect ran for user u: activeUser changed to u with OS
\* mounted, or OS was mounted anew for u
Restored(u) == SwitchUser(u) \/ Remount(u)

\* C5 as claimed: after every restore, also for a user with nothing stored,
\* the running top z-index is max(100, the restored z-indices).
C5_TopIsMaxAfterEveryRestore ==
    [][ \A u \in WMUsers :
          Restored(u) => topZIndexRef' = MaxZ(windows', TopZInit) ]_vars

\* C5 as amended: restoring a stored list, the empty list included, sets
\* the running top z-index to max(100, the restored z-indices); with nothing
\* stored the list becomes empty and the counter keeps its value (100 after
\* a fresh mount).  In both cases no restored window is above the counter,
\* so the next window opened, at the counter plus one, is above them all.
C5_RestoreRecomputesTop ==
    [][ \A u \in WMUsers :
          /\ Restored(u)
             => /\ \A i \in 1..Len(windows') :
                      windows'[i].zIndex <= topZIndexRef'
                /\ storage[u].present
                   => /\ topZIndexRef' = MaxZ(windows', TopZInit)
                      /\ Len(windows') = Len(storage[u].sessions)
                /\ ~storage[u].present => windows' = <<>>
          /\ (SwitchUser(u) /\ ~storage[u].present)
             => topZIndexRef' = topZIndexRef
          /\ (Remount(u) /\ ~storage[u].present)
             => topZIndexRef' = TopZInit ]_vars

\* a stored list with a gap in its z-indices was restored: the counter is
\* its maximum, above 100, and not the number of windows
C5_Witness ==
    /\ Len(windows) = 2
    /\ topZIndexRef = TopZInit + 3
    /\ windows[1].zIndex = TopZInit + 3
    /\ windows[2].zIndex = TopZInit + 2
    /\ activeUser = "bob"
    /\ storage["alice"].present /\ storage["alice"].sessions # <<>>

\* the step is an openWindow
Opens == \E in \in OpenInputs : OpenWindow(in[1], in[2])

\* C23: every live window is in exactly one of the states open-normal,
\* open-minimized, open-maximized: no sequence of operations produces a
\* window that is minimized and maximized at once, and a closed window never
\* reappears in the live set.
C23_ThreeStates ==
    [][ /\ \A i \in 1..Len(windows') :
              ~(windows'[i].isMinimized /\ windows'[i].isMaximized)
        /\ \A id \in LiveIds : CloseWindow(id) => id \notin LiveIds'
        /\ Opens \/ LiveIds' \subseteq LiveIds ]_vars

\* C23 as amended: isMinimized and isMaximized are independent flags.
\* minimizeWindow leaves isMaximized of every window as it is and
\* maximizeWindow leaves isMinimized as it is, so that a maximized window
\* that is minimized is both, and is maximized again when focusWindow
\* brings it back; a window closed is not in the list after the close, and
\* nothing but openWindow adds a window.
C23_IndependentFlags ==
    [][ /\ \A id \in LiveIds :
              /\ MinimizeWindow(id)
                 => \A i \in Idx :
                       /\ windows'[i].isMaximized = windows[i].isMaximized
                       /\ windows'[i].isMinimized
                             = (windows[i].isMinimized \/ windows[i].id = id)
              /\ MaximizeWindow(id)
                 => \A i \in Idx :
                       windows'[i].isMinimized = windows[i].isMinimized
              /\ FocusWindow(id)
                 => \A i \in Idx :
                       windows'[i].isMaximized = windows[i].isMaximized
              /\ CloseWindow(id) => id \notin LiveIds'
        /\ Opens \/ LiveIds' \subseteq LiveIds ]_vars

\* a maximized window was minimized and is both; another window is visible
C23_Witness ==
    /\ Len(windows) = 2
    /\ windows[1].isMinimized /\ windows[1].isMaximized
    /\ ~windows[2].isMinimized

\* the geometry Window.tsx renders a window that is not minimized with
RenderedGeometry(w) ==
    IF w.isMaximized
    THEN [x |-> "0", y |-> "28", width |-> "100vw",
          height |-> "calc(100vh - 28px)"]
    ELSE [x |-> "position.x", y |-> "position.y", width |-> "size.width",
          height |-> "size.height"]

\* C24: maximizeWindow toggles only the isMaximized flag of the target
\* window: its stored position and size stay as they are while it is
\* maximized (the rendered geometry alone is overridden), no other window
\* changes, and applying maximizeWindow twice gives back the window list.
C24_MaximizeTogglesTarget ==
    [][ \A i \in Idx :
          MaximizeWindow(windows[i].id)
          => /\ windows'[i] = [windows[i] EXCEPT
                                 !.isMaximized = ~windows[i].isMaximized]
             /\ RenderedGeometry(windows'[i]) # RenderedGeometry(windows[i])
             /\ \A j \in Idx : j # i => windows'[j] = windows[j]
             /\ maximizeWindow(windows', windows[i].id) = windows ]_vars

\* C24 where the live ids are distinct
C24_MaximizeTogglesTargetOfDistinctIds ==
    [][ DistinctIds => \A i \in Idx :
          MaximizeWindow(windows[i].id)
          => /\ windows'[i] = [windows[i] EXCEPT
                                 !.isMaximized = ~windows[i].isMaximized]
             /\ RenderedGeometry(windows'[i]) # RenderedGeometry(windows[i])
             /\ \A j \in Idx : j # i => windows'[j] = windows[j]
             /\ maximizeWindow(windows', windows[i].id) = windows ]_vars

\* C24 whatever the ids: every window of the id has its flag toggled and
\* nothing else, the others are as before, and twice is the identity
C24_MaximizeIsInvolution ==
    [][ \A id \in LiveIds :
          MaximizeWindow(id)
          => /\ \A i \in Idx :
                  windows'[i] = IF windows[i].id = id
                                THEN [windows[i] EXCEPT
                                        !.isMaximized = ~windows[i].isMaximized]
                                ELSE windows[i]
             /\ maximizeWindow(windows', id) = windows ]_vars

\* some window is visible
SomeVisible(ws) == \E i \in 1..Len(ws) : ~ws[i].isMinimized

\* the window at k is visible and no visible window has a higher z-index
HighestVisible(ws, k) ==
    /\ ~ws[k].isMinimized
    /\ \A j \in 1..Len(ws) : ~ws[j].isMinimized => ws[k].zIndex >= ws[j].zIndex

\* C25: minimizeWindow sets the minimized flag of the target and assigns a
\* new top z-index to the next-highest visible window only if the window
\* minimized was the focused one: minimizing a window that was not topmost,
\* or the last visible window, changes no window's z-index.
C25_MinimizeRefocusesIfFocused ==
    [][ \A i \in Idx :
          MinimizeWindow(windows[i].id)
          => /\ windows'[i].isMinimized
             /\ (~StrictlyTopmost(windows, i) \/ ~SomeVisible(windows'))
                => \A j \in Idx : windows'[j].zIndex = windows[j].zIndex ]_vars

\* the windows of ws with the flag of those of the id set
Minimized(ws, id) ==
    MapSeq(ws, LAMBDA w : IF w.id = id THEN [w EXCEPT !.isMinimized = TRUE]
                          ELSE w)

\* C25 as amended: minimizeWindow sets the minimized flag of the target
\* and, whenever a window stays visible, raises the counter by one and
\* assigns it to the visible window with the highest z-index, whether or not
\* the window minimized was the focused one; when no window stays visible
\* no z-index and not the counter changes.
C25_MinimizeRaisesHighestVisible ==
    [][ \A id \in LiveIds :
          MinimizeWindow(id)
          => IF SomeVisible(Minimized(windows, id))
             THEN /\ topZIndexRef' = topZIndexRef + 1
                  /\ \E k \in Idx :
                        /\ HighestVisible(Minimized(windows, id), k)
                        /\ windows' =
                             MapSeq(Minimized(windows, id),
                                LAMBDA w : IF w.id = windows[k].id
                                           THEN [w EXCEPT
                                                   !.zIndex = topZIndexRef + 1]
                                           ELSE w)
             ELSE /\ topZIndexRef' = topZIndexRef
                  /\ windows' = Minimized(windows, id) ]_vars

\* the first of two windows, not the topmost, was minimized: the second
\* was given a new z-index all the same
C25_Witness ==
    /\ Len(windows) = 2
    /\ windows[1].isMinimized /\ windows[1].zIndex = TopZInit + 1
    /\ ~windows[2].isMinimized /\ windows[2].zIndex = TopZInit + 3
    /\ topZIndexRef = TopZInit + 3
    /\ windows[1].id # windows[2].id


(***************************************************************************)
(* Claims about su and the session stack                                   *)
(***************************************************************************)
Active == activeTerminalUser(sessionStack, currentUser)

IsSu(line) == line.cmd = "su"
Target(line) == IF Len(line.args) > 0 THEN line.args[1] ELSE "root"
Supplied(line) == Len(line.args) > 1
\* the password given equals the one stored for the target
PasswordMatches(line) ==
    /\ Supplied(line)
    /\ Target(line) \in Users
    /\ line.args[2] = UserStore[Target(line)].password

AuthFailure == [output |-> <<<<"su: Authentication failure">>>>,
                error |-> TRUE, spawn |-> Undefined]

\* C6 as claimed: su <user> <wrongpass> by a non-root effective user, for an
\* existing <user>, returns the authentication failure with the error flag
\* and leaves the session stack as it was.
C6_WrongPasswordFails ==
    [][ \A line \in Lines :
          ( /\ Submit(line) /\ IsSu(line) /\ Supplied(line)
            /\ Active # "root"
            /\ Target(line) \in Users
            /\ ~PasswordMatches(line) )
          => /\ lastCtx'.result = AuthFailure
             /\ sessionStack' = sessionStack ]_vars

\* C6 as amended: the same for an existing <user> other than the effective
\* user; su to the effective user itself answers "Already logged in"
\* without the error flag, whatever password is given.
C6_WrongPasswordFailsForOtherUser ==
    [][ \A line \in Lines :
          ( /\ Submit(line) /\ IsSu(line) /\ Supplied(line)
            /\ Active # "root"
            /\ Target(line) \in Users
            /\ ~PasswordMatches(line) )
          => /\ sessionStack' = sessionStack
             /\ Target(line) # Active => lastCtx'.result = AuthFailure
             /\ Target(line) = Active
                => /\ ~lastCtx'.result.error
                   /\ lastCtx'.result.output =
                        <<<<"Already logged in as ", Active>>>> ]_vars

\* a wrong password for another user was refused, the stack holding two
\* entries
C6_Witness ==
    /\ lastCtx.result = AuthFailure
    /\ Len(sessionStack) = 2
    /\ Active # "root"
    /\ history # <<>>
    /\ history[Len(history)].command.args = <<"root", "apw">>

\* every built-in is handed the effective user as terminalUser and a
\* filesystem bound to it, and whoami prints it
DispatchedAsActive ==
    \A line \in Lines :
       (Submit(line) /\ line.cmd \in Builtins)
       => /\ lastCtx'.ctx.dispatched
          /\ lastCtx'.ctx.terminalUser = Active
          /\ lastCtx'.ctx.fsUser = Active
          /\ line.cmd = "whoami" => lastCtx'.result.output = <<<<Active>>>>
          /\ line.cmd = "cat"
             => \A i \in 1..Len(fsCalls') :
                   fsCalls'[i].op = "readFile" => fsCalls'[i].actor = Active

\* C7 as claimed: su <user> <correctpass> by a non-root effective user
\* pushes <user>, and from then on every command is handed terminalUser =
\* <user> and a filesystem bound to <user>; whoami prints <user>.
C7_CorrectPasswordPushes ==
    [][ /\ \A line \in Lines :
             ( /\ Submit(line) /\ IsSu(line) /\ Active # "root"
               /\ PasswordMatches(line) )
             => /\ sessionStack' = Append(sessionStack, Target(line))
                /\ activeTerminalUser(sessionStack', currentUser)
                     = Target(line)
        /\ DispatchedAsActive ]_vars

\* C7 as amended: the same for a <user> other than the effective user; su
\* to the effective user itself pushes nothing.
C7_CorrectPasswordPushesOtherUser ==
    [][ /\ \A line \in Lines :
             ( /\ Submit(line) /\ IsSu(line) /\ Active # "root"
               /\ PasswordMatches(line) )
             => /\ Target(line) # Active
                   => sessionStack' = Append(sessionStack, Target(line))
                /\ Target(line) = Active => sessionStack' = sessionStack
                /\ activeTerminalUser(sessionStack', currentUser)
                     = Target(line)
        /\ DispatchedAsActive ]_vars

\* after su alice apw by bob, whoami was dispatched as alice and printed
\* alice
C7_Witness ==
    /\ currentUser = "bob"
    /\ sessionStack = <<"bob", "alice">>
    /\ Len(history) = 2
    /\ history[1].command.cmd = "su"
    /\ history[2].command.cmd = "whoami"
    /\ history[2].output = <<<<"alice">>>>
    /\ lastCtx.ctx.terminalUser = "alice"
    /\ lastCtx.ctx.fsUser = "alice"

\* the condition under which su may push
MayPush(line) ==
    /\ Target(line) \in Users
    /\ (Active = "root" \/ PasswordMatches(line))

\* C8 as claimed: su pushes only if the target exists and the effective user
\* is root or the supplied password is the target's; in every other case it
\* returns an error and the stack is unchanged.
C8_PushOnlyWhenAuthorised ==
    [][ \A line \in Lines :
          (Submit(line) /\ IsSu(line))
          => /\ sessionStack' # sessionStack
                => (MayPush(line)
                    /\ sessionStack' = Append(sessionStack, Target(line)))
             /\ ~MayPush(line)
                => (lastCtx'.result.error /\ sessionStack' = sessionStack)
       ]_vars

\* C8 as amended: in every other case the stack is unchanged, and su returns
\* an error unless the target is the effective user, where it answers
\* "Already logged in" without one.
C8_PushOnlyWhenAuthorisedOrSelf ==
    [][ \A line \in Lines :
          (Submit(line) /\ IsSu(line))
          => /\ sessionStack' # sessionStack
                => (MayPush(line)
                    /\ sessionStack' = Append(sessionStack, Target(line)))
             /\ ~MayPush(line)
                => /\ sessionStack' = sessionStack
                   /\ lastCtx'.result.error <=> Target(line) # Active
       ]_vars

\* root switched to bob, who has no password, and a su without a password
\* by alice was refused before
C8_Witness ==
    /\ currentUser = "alice"
    /\ sessionStack = <<"alice", "root", "bob">>
    /\ Len(history) = 3
    /\ history[1].error
    /\ history[1].command.cmd = "su"

\* C9: closeSession on a stack of one entry changes nothing, so the stack,
\* once initialised with the logged-in user, is never empty and keeps its
\* bottom entry under every push and close.
C9_BaseSessionStays ==
    [][ /\ Len(sessionStack') >= 1
        /\ sessionStack'[1] = sessionStack[1]
        /\ \A line \in Lines :
             (Submit(line) /\ line.cmd = "exit")
             => sessionStack' = closeSession(sessionStack)
        /\ \A line \in Lines :
             (Submit(line) /\ line.cmd = "exit" /\ Len(sessionStack) = 1)
             => sessionStack' = sessionStack ]_vars

\* after a push and its close, a second close left the base session
C9_Witness ==
    /\ Len(history) = 3
    /\ history[1].command.cmd = "su"
    /\ ~history[1].error
    /\ history[2].command.cmd = "exit"
    /\ history[3].command.cmd = "exit"
    /\ sessionStack = <<currentUser>>

\* C10: every filesystem call made while a line is executed acts as the
\* effective user, the one recorded in the line's transcript entry; in
\* particular the read and the write of a redirection target.
C10_CallsActAsEffectiveUser ==
    history # <<>>
    => \A i \in 1..Len(fsCalls) :
          fsCalls[i].actor = history[Len(history)].user

(***************************************************************************)
(* Claims about the transcript and redirection                             *)
(***************************************************************************)
Last(seq) == seq[Len(seq)]

\* the line at the prompt asks for redirection to a file, and is not clear
Redirecting ==
    /\ input.redirect.kind # "none"
    /\ input.redirect.path # ""
    /\ input.cmd # "clear"

\* the text of the output of the command just run
TextOut == JoinLines(lastCtx'.result.output)

\* the redirection of the line just entered wrote its file
Written == Truthy(TextOut) /\ Last(history').output = <<>>

WriteFailure(path) == <<<<"Failed to write to ", path>>>>

\* C14: the entry appended for a line that requests redirection has no
\* output, or has the write-failure message alone with the error flag; the
\* output of the command itself is not shown.
C14_RedirectedOutputHidden ==
    [][ (Enter /\ input.redirect.kind # "none" /\ input.cmd # "clear")
        => \/ Last(history').output = <<>>
           \/ /\ Last(history').output = WriteFailure(input.redirect.path)
              /\ Last(history').error ]_vars

\* C14 where the line names a target and the command's text is not empty:
\* there the statement holds
C14_RedirectedTextHidden ==
    [][ (Enter /\ Redirecting /\ Truthy(TextOut))
        => \/ Last(history').output = <<>>
           \/ /\ Last(history').output = WriteFailure(input.redirect.path)
              /\ Last(history').error ]_vars

\* C16: when the command run requests clear, the transcript becomes empty
\* and no entry is appended for the command, whatever the transcript held
\* and whether or not the line asks for redirection as well; nothing is
\* written to the redirection target.
C16_ClearEmptiesTranscript ==
    [][ (Enter /\ Trim(input) # Blank
         /\ generateOutput(Trim(input), sessionStack, currentUser,
                           files).shouldClear)
        => /\ history' = <<>>
           /\ files' = files ]_vars

\* a transcript of two entries was cleared by a clear with a redirection
C16_Witness ==
    /\ Len(commandHistory) = 3
    /\ commandHistory[1].cmd = "whoami"
    /\ commandHistory[2].cmd = "cat"
    /\ commandHistory[3].cmd = "clear"
    /\ commandHistory[3].redirect.kind = ">"
    /\ history = <<>>

\* C17: submitting a line that is empty after trimming appends exactly one
\* blank entry (empty command, empty output), dispatches no command, makes
\* no filesystem call, leaves the files, the session stack and the working
\* directory as they were and adds nothing to the command history.
C17_BlankLineOnlyAppends ==
    [][ (Enter /\ Trim(input) = Blank)
        => /\ history' = Append(history, BlankEntry(currentPath))
           /\ Last(history').command = Blank
           /\ Last(history').output = <<>>
           /\ ~lastCtx'.ctx.dispatched
           /\ fsCalls' = <<>>
           /\ files' = files
           /\ sessionStack' = sessionStack
           /\ currentPath' = currentPath
           /\ commandHistory' = commandHistory ]_vars

\* after su and cd, a line of blanks was entered: one blank entry more, the
\* command history still holding the two commands
C17_Witness ==
    /\ input = RawLine("", <<>>, NoRedirect, TRUE)
    /\ Len(commandHistory) = 2
    /\ Len(history) = 3
    /\ Last(history) = BlankEntry("/tmp")
    /\ Len(sessionStack) = 2

\* the user an entry is shown with: item.user || activeTerminalUser
ShownUser(entry, stack, current) ==
    IF entry.user = Undefined THEN activeTerminalUser(stack, current)
    ELSE entry.user

\* the entries kept by a step: those of the transcript before that are
\* still at their place after
Kept == {i \in 1..Len(history) : i <= Len(history') /\ history'[i] = history[i]}

\* an entry was appended by the step
Appended == Len(history') = Len(history) + 1

\* C18: every entry carries the working directory and the acting user of
\* the moment its line was submitted, and the user an entry is shown with
\* never changes later; for every entry, those of blank lines and of
\* completion listings included.
C18_EntriesKeepContext ==
    [][ /\ ((Enter \/ Tab) /\ Appended)
           => /\ Last(history').path = currentPath
              /\ Last(history').user = Active
        /\ \A i \in Kept :
              ShownUser(history'[i], sessionStack', currentUser')
                 = ShownUser(history[i], sessionStack, currentUser) ]_vars

\* C18 for the entries of lines that are not empty: they carry the working
\* directory and the acting user of before the command, and are shown with
\* that user ever after
C18_CommandEntriesKeepContext ==
    [][ /\ (Enter /\ Appended /\ Trim(input) # Blank)
           => /\ Last(history').path = currentPath
              /\ Last(history').user = Active
              /\ Last(history').accentColor
                    = getTerminalAccentColor(Active, currentUser)
        /\ \A i \in Kept :
              history[i].user # Undefined
              => ShownUser(history'[i], sessionStack', currentUser')
                    = history[i].user ]_vars

-----------------------------------------------------------------------------
(* Claims about the command history                                        *)

\* the selection index is -1 or the index of a recorded line
IndexInRange(index, cmds) == -1 <= index /\ index <= Len(cmds) - 1

\* the arrow keys clamp at both ends, and ArrowDown from the most recent
\* line returns to no selection with an empty input
ArrowsClamp ==
    /\ (ArrowUp /\ historyIndex = Len(commandHistory) - 1)
          => UNCHANGED <<historyIndex, input>>
    /\ (ArrowDown /\ historyIndex = -1)
          => UNCHANGED <<historyIndex, input>>
    /\ (ArrowDown /\ historyIndex = 0)
          => (historyIndex' = -1 /\ input' = Blank)

\* C19: the selection index always satisfies
\* -1 <= index <= length(commandHistory) - 1; ArrowUp at the oldest line and
\* ArrowDown at no selection change nothing, ArrowDown from the most recent
\* line returns to no selection with an empty input, and every submission
\* resets the index to -1.
C19_IndexClampsAndResets ==
    [][ /\ IndexInRange(historyIndex', commandHistory')
        /\ ArrowsClamp
        /\ Enter => historyIndex' = -1 ]_vars

\* C19 without the blank line: the index stays in range, the arrows clamp,
\* and the submission of a line that is not empty resets the index
C19_IndexResetsOnCommand ==
    [][ /\ IndexInRange(historyIndex', commandHistory')
        /\ ArrowsClamp
        /\ (Enter /\ Trim(input) # Blank) => historyIndex' = -1 ]_vars

\* the input after k presses of ArrowUp, from the selection index given
RECURSIVE AfterUps(_, _, _, _)
AfterUps(k, cmds, index, shown) ==
    IF k = 0 THEN shown
    ELSE IF index < Len(cmds) - 1
    THEN AfterUps(k - 1, cmds, index + 1, cmds[Len(cmds) - (index + 1)])
    ELSE AfterUps(k - 1, cmds, index, shown)

\* the k-th most recent of the recorded lines
Recent(k, cmds) == cmds[Len(cmds) + 1 - k]

\* what a step does to the recorded lines: a submitted line that is not
\* empty is appended trimmed, and nothing else changes them
Recorded ==
    IF Enter /\ Trim(input) # Blank
    THEN commandHistory' = Append(commandHistory, Trim(input))
    ELSE commandHistory' = commandHistory

\* C20: the command history is the sequence of the non-empty submitted
\* lines, trimmed, in submission order, whatever happens to the transcript
\* (a line that clears is recorded, clearing removes nothing), so that k
\* presses of ArrowUp after a submission show the k-th most recent line.
C20_HistoryNavigable ==
    [][ /\ Recorded
        /\ Enter => \A k \in 1..Len(commandHistory') :
                       AfterUps(k, commandHistory', historyIndex', input')
                          = Recent(k, commandHistory') ]_vars

\* C20 for what is recorded, and for the presses that follow the
\* submission of a line that is not empty
C20_HistoryRecorded ==
    [][ /\ Recorded
        /\ (Enter /\ Trim(input) # Blank)
              => \A k \in 1..Len(commandHistory') :
                    AfterUps(k, commandHistory', historyIndex', input')
                       = Recent(k, commandHistory') ]_vars

-----------------------------------------------------------------------------
(* Claims about the instances                                              *)

\* the effective user of the second instance
PeerActive == activeTerminalUser(peer.stack, currentUser)

C12_OneInFlight == Len(inFlight) <= 1

-----------------------------------------------------------------------------
(* Claims about glob expansion                                             *)

\* name matches pattern, `*` standing for any string and every other
\* character for itself
RECURSIVE GlobMatches(_, _)
GlobMatches(pattern, name) ==
    IF pattern = <<>> THEN name = <<>>
    ELSE IF Head(pattern) = "*"
    THEN \/ GlobMatches(Tail(pattern), name)
         \/ name # <<>> /\ GlobMatches(pattern, Tail(name))
    ELSE /\ name # <<>>
         /\ Head(name) = Head(pattern)
         /\ GlobMatches(Tail(pattern), Tail(name))

\* the names of the listing that match, in directory order
GlobNames(pattern, listing) ==
    SelectSeq(listing.files, LAMBDA name : GlobMatches(pattern, name))

\* the expansion of a pattern as specified
Expansion(pattern, listing) ==
    IF /\ Includes(pattern, "*")
       /\ ~Includes(pattern, "/")
       /\ listing.listed
       /\ Len(GlobNames(pattern, listing)) > 0
    THEN GlobNames(pattern, listing)
    ELSE <<pattern>>

\* C15: expandGlob(pattern), for a pattern with `*` and without `/`, returns
\* the names of the working directory that match, `*` standing for any
\* string and every other character for itself, in directory order; the
\* literal pattern alone when nothing matches or the directory cannot be
\* listed; and a pattern without `*` or with `/` unchanged.
C15_GlobExpansion ==
    globOut.called
    => /\ ~globOut.threw
       /\ globOut.value = Expansion(globIn.pattern, globIn.listing)

\* C15 for the patterns without `?`
C15_GlobExpansionPlain ==
    (globOut.called /\ ~Includes(globIn.pattern, "?"))
    => /\ ~globOut.threw
       /\ globOut.value = Expansion(globIn.pattern, globIn.listing)

-----------------------------------------------------------------------------
(* Claims about command lookup                                             *)

\* the output is the one line that says the command was not found
IsNotFound(output, cmd) ==
    /\ Len(output) = 1
    /\ Len(output[1]) >= 2
    /\ output[1][1] = cmd
    /\ output[1][2] = ": command not found"

\* the file the name at the prompt stands for
Found == foundPath(input.cmd, files)

\* the file found holds the marker, for a user who may read it
Marked(user) ==
    /\ Found # NotFound
    /\ IsLauncher(readFile(files, Found, user))

\* the step submits the line at the prompt, and its command is no built-in
EntersFile == Enter /\ Trim(input) # Blank /\ input.cmd \notin Builtins

\* the arguments of the line at the prompt, expanded
ArgsExpanded ==
    expandArgs(input.args, listDirectory(currentPath, files)).value

\* C22: a command name that is no built-in and no file on the lookup path,
\* or a file found without the marker, never raises: the line gets an entry
\* whose output is the "command not found" message, with the error flag; a
\* file found with the marker has the launch callback called with the app id
\* and the expanded arguments; a built-in takes precedence over a file.
C22_LookupNeverRaises ==
    [][ /\ EntersFile
           => /\ ~lastCtx'.raised
              /\ Appended
              /\ ~Marked(Active)
                 => /\ IsNotFound(Last(history').output, input.cmd)
                    /\ Last(history').error
                    /\ ~lastCtx'.ctx.launch.called
              /\ Marked(Active)
                 => /\ lastCtx'.ctx.launch.called
                    /\ lastCtx'.ctx.launch.appId
                          = AppId(readFile(files, Found, Active))
                    /\ lastCtx'.ctx.launch.args = ArgsExpanded
        /\ (Enter /\ input.cmd \in Builtins /\ ~lastCtx'.raised)
           => /\ lastCtx'.ctx.dispatched
              /\ ~lastCtx'.ctx.launch.called ]_vars

\* C22 where no argument makes expandGlob throw and the terminal acts as
\* the logged-in user
C22_LookupOfPlainLines ==
    [][ /\ (EntersFile /\ ~lastCtx'.raised /\ Active = currentUser)
           => /\ Appended
              /\ ~Marked(Active)
                 => /\ IsNotFound(Last(history').output, input.cmd)
                    /\ Last(history').error
                    /\ ~lastCtx'.ctx.launch.called
              /\ Marked(Active)
                 => /\ lastCtx'.ctx.launch.called
                    /\ lastCtx'.ctx.launch.appId
                          = AppId(readFile(files, Found, Active))
                    /\ lastCtx'.ctx.launch.args = ArgsExpanded
        /\ (Enter /\ input.cmd \in Builtins /\ ~lastCtx'.raised)
           => /\ lastCtx'.ctx.dispatched
              /\ ~lastCtx'.ctx.launch.called ]_vars
-----------------------------------------------------------------------------
(* Claims about completion                                                 *)

\* the candidates of the prompt as a set: the names that match its last
\* word
TabCandidates ==
    {rawCandidates(LastPart(input), IsCommandWord(input), currentPath,
                   files)[i] :
        i \in 1..Len(rawCandidates(LastPart(input), IsCommandWord(input),
                                   currentPath, files))}

\* a sequence of strings in ascending order, none of them twice
Ascending(s) == \A i, j \in 1..Len(s) : i < j => Before(s[i], s[j])

\* the strings a listing entry shows
Shown(entry) == MapSeq(entry.output, LAMBDA line : line[1])

\* C21: Tab on a non-empty input acts by the number of candidates: none
\* changes nothing; one replaces the input by the completed text and
\* leaves the transcript; two or more leave the input and append one entry
\* that lists the candidates, de-duplicated and sorted.  Tab dispatches no
\* command and calls no operation of the file system.
C21_TabFollowsCandidates ==
    [][ (Tab /\ input # Blank) =>
        /\ UNCHANGED <<files, fsCalls, lastCtx, commandHistory,
                       historyIndex, sessionStack, currentPath, currentUser>>
        /\ Cardinality(TabCandidates) = 0 => UNCHANGED <<input, history>>
        /\ Cardinality(TabCandidates) = 1 =>
              /\ history' = history
              /\ \E c \in TabCandidates : input' = completeInput(input, c)
        /\ Cardinality(TabCandidates) > 1 =>
              /\ input' = input
              /\ Len(history') = Len(history) + 1
              /\ SubSeq(history', 1, Len(history)) = history
              /\ LET entry == history'[Len(history')]
                 IN  /\ entry.command = input
                     /\ ~entry.error
                     /\ Len(entry.output) = Cardinality(TabCandidates)
                     /\ \A i \in 1..Len(entry.output) :
                            Shown(entry)[i] \in TabCandidates
                     /\ Ascending(Shown(entry)) ]_vars

\* a candidate found twice, as a command and as a file of /bin, has
\* completed the prompt after candidates were listed
C21_Witness ==
    /\ files = LookupFiles
    /\ input = RawLine("whoami", <<>>, NoRedirect, TRUE)
    /\ \E i \in 1..Len(history) :
          /\ history[i].command # Blank
          /\ Len(history[i].output) > 1
-----------------------------------------------------------------------------
(* Claims about the effects of OS                                          *)

\* no effect waits and no update waits
FxSettled == toRun = <<>> /\ queued = <<>>

\* a restore has begun and the list it read is not rendered yet
RestoreInProgress ==
    \/ isRestoring
    \/ \E i \in 1..Len(toRun) : toRun[i] = "restore"
    \/ \E i \in 1..Len(queued) : queued[i].set = "windows"

\* C26: once restoration has finished, after every change of the window
\* list the value under the key of the active user is the serialization of
\* the full window list, and nothing is written while a restore is in
\* progress.
C26_PersistFollowsWindows ==
    [][ /\ storage' # storage => ~RestoreInProgress
        /\ (FxSettled /\ ~isRestoring)' =>
              storage'[activeUser'] = Stored(Serialize(windows')) ]_vars

\* what holds: when every effect has run the stored value is the
\* serialization of the window list, what is written is the list of the
\* commit under the key of its user, and nothing is written by a commit
\* that saw isRestoring set
C26_PersistWhenSettled ==
    [][ /\ storage' # storage =>
              /\ ~isRestoring
              /\ storage' = PersistEffect(storage, activeUser, windows)
        /\ (FxSettled /\ ~isRestoring)' =>
              storage'[activeUser'] = Stored(Serialize(windows')) ]_vars
-----------------------------------------------------------------------------
(* Claims about desktop icons                                              *)

\* C27: a failure of storage never raises out of the core and never changes
\* the state in memory: a failing write of the icon positions leaves the
\* positions as they were, and a read that fails or is malformed yields an
\* empty position map.
C27_StorageFailuresContained ==
    [][ /\ ~raised'
        /\ (DeskMount /\ ~(positions.present /\ positions.parses)) =>
              iconGridPositions = NoPositions ]_vars

\* what holds: a read that fails or is malformed yields the empty map, and
\* nothing is raised while setItem does not throw
C27_ReadFailuresContained ==
    [][ /\ ~quota => ~raised'
        /\ (DeskMount /\ ~(positions.present /\ positions.parses)) =>
              iconGridPositions = NoPositions ]_vars

\* the last call of moveNodeById
LastMove == moved'[Len(moved')]

\* C28: a drop within 35 px of the centre of a folder in the target cell
\* moves the node into the folder and rearranges nothing, and the entry of
\* the dragged icon is removed only if the move succeeded: if moveNodeById
\* returns false the icon stays on the desktop with its position.
C28_MergeRemovesAfterMove ==
    [][ Len(moved') > Len(moved) =>
        /\ \A i \in DOMAIN iconGridPositions \ {LastMove.id} :
              /\ i \in DOMAIN iconGridPositions'
              /\ iconGridPositions'[i] = iconGridPositions[i]
        /\ LastMove.returned =>
              /\ LastMove.id \notin DOMAIN iconGridPositions'
              /\ LastMove.id \notin IdsOf(desktop')
        /\ ~LastMove.returned =>
              /\ desktop' = desktop
              /\ iconGridPositions' = iconGridPositions ]_vars

\* what holds: the entry of the dragged icon is removed whatever
\* moveNodeById returns, and nothing is rearranged
C28_MergeRemovesAlways ==
    [][ Len(moved') > Len(moved) =>
        /\ iconGridPositions' = Without1(iconGridPositions, LastMove.id)
        /\ LastMove.returned => LastMove.id \notin IdsOf(desktop')
        /\ ~LastMove.returned => desktop' = desktop ]_vars

\* every effect has run and no callback waits
DeskSettled == ~raised /\ toRun = <<>> /\ timers = <<>>

\* the icons as they are derived
Icons == desktopIcons(desktop, iconGridPositions).icons

\* C29: after the icons are derived and reconciled no two of them are in
\* one cell: a file without a stored position gets a cell that is free
\* with respect to all other icons, those later in the listing included.
C29_NoTwoIconsInOneCell ==
    DeskSettled =>
        \A i, j \in 1..Len(Icons) :
            i # j => Icons[i].gridPos # Icons[j].gridPos

\* what holds: the cell allocated to a file without a stored position is
\* free with respect to the icons before it in the listing
C29_FreeAmongEarlierIcons ==
    \A i, j \in 1..Len(Icons) :
        (i < j /\ Icons[j].id \notin DOMAIN iconGridPositions) =>
            Icons[i].gridPos # Icons[j].gridPos

\* C30: deferred reconciliation settles: without further events a finite
\* number of deferred updates reaches a state where the position map has
\* exactly one entry per file of the desktop and a further pass changes
\* nothing.
C30_ReconciliationSettles ==
    <>[](/\ DeskSettled
         /\ DOMAIN iconGridPositions = IdsOf(desktop)
         /\ timersOf(desktop, iconGridPositions) = <<>>)

\* the sync callback has run and given the new files their cells while
\* orphans remain: two cleanup callbacks wait, and the second will find
\* nothing to delete
C30_Witness ==
    /\ Len(timers) = 2
    /\ timers[1].kind = "cleanup" /\ timers[2].kind = "cleanup"
    /\ IdsOf(desktop) \subseteq DOMAIN iconGridPositions
    /\ Len(desktop) > 0

(***************************************************************************)
(* Claims about window ids and the focused window                          *)
(***************************************************************************)
\* C35: the live windows have pairwise distinct ids, so that closeWindow,
\* focusWindow, minimizeWindow, maximizeWindow and updateWindowState each
\* affect at most one window.  The id is `${type}-${Date.now()}`: two
\* windows of one type opened in the same millisecond share it.
C35_IdsPairwiseDistinct ==
    \A i, j \in Idx : i # j => windows[i].id # windows[j].id

\* C35, the part about closeWindow that holds: it removes every window of
\* the given id (all of them where the id is shared), keeps the others in
\* their order and unchanged, leaves the counter alone, and changes nothing
\* for an id that is not live
C35_CloseRemovesMatching ==
    [][ \A id \in LiveIds :
          CloseWindow(id)
          => /\ windows' = SelectSeq(windows, LAMBDA w : w.id # id)
             /\ \A k \in 1..Len(windows') : windows'[k].id # id
             /\ topZIndexRef' = topZIndexRef
             /\ closeWindow(windows', id) = windows' ]_vars

\* C32: whenever some live window is not minimized, the focused window (the
\* one focusedWindowId computes, the live window of the highest z-index) is
\* not minimized.  closeWindow removes the window and raises no other one,
\* so a minimized window that has a higher z-index than the visible windows
\* left becomes the focused one.  The statement is made for distinct ids,
\* so that its failure owes nothing to the shared ids of C35.
C32_FocusedIsVisible ==
    (DistinctIds /\ SomeVisible(windows))
    => \A i \in Idx : windows[i].id = focusedWindowId(windows)
                      => ~windows[i].isMinimized

\* C32 without closeWindow: an operation other than close keeps the
\* statement (the ids being distinct)
C32_FocusedIsVisibleUnlessClosed ==
    [][ ( /\ C32_FocusedIsVisible
          /\ DistinctIds
          /\ Len(windows') >= Len(windows) )
        => C32_FocusedIsVisible' ]_vars

-----------------------------------------------------------------------------
(* Claims about the switch of the active user                              *)

\* the list a restore read for the active user waits to be rendered
RestoredListWaits == \E i \in 1..Len(queued) : queued[i].set = "windows"

\* C33: on a switch of the active user, what is written under the key of
\* the new user is the list restored for that user (or the empty list) and
\* later changes to it, never the window list of the previous user.  Stated
\* on the writes made while the restored list waits to be rendered: such a
\* write stores the restored list.
C33_NewKeyGetsRestoredList ==
    [][ (RestoredListWaits /\ storage'[activeUser] # storage[activeUser])
        => storage'[activeUser] =
              Stored(Serialize(Rendered("windows", windows, queued))) ]_vars

\* C33, second part, which holds: no step changes what is stored under the
\* key of a user other than the active one, so the list stored for the
\* previous user is as it was before the switch
C33_OtherKeysUntouched ==
    [][ \A u \in WMUsers :
          (u # activeUser \/ activeUser' # activeUser)
          => storage'[u] = storage[u] ]_vars

-----------------------------------------------------------------------------
(* Claims about the round trip of the window list                          *)

\* C34: persisting a window list and restoring it is a round trip: the
\* restored list has the same windows in the same order with the same id,
\* type, title, flags, position, size, z-index and data, and the content of
\* each is what getAppContent makes of its stored type and data, which is
\* the content the window got when it was opened.  So the list restored
\* from the serialization of the live list is the live list, content
\* included, and so is the list restored from what is stored for the active
\* user.
C34_PersistRestoreRoundTrip ==
    /\ RestoreEffect(Stored(Serialize(windows)), topZIndexRef).windows
          = windows
    /\ storage[activeUser].present
          => /\ Deserialize(storage[activeUser].sessions) = windows
             /\ Serialize(windows) = storage[activeUser].sessions

\* both users have a list stored, and the active one's has a minimized
\* window and a finder opened with a path: lists of two windows went through
\* a change of user
C34_Witness ==
    /\ \A u \in WMUsers : storage[u].present /\ Len(storage[u].sessions) > 0
    /\ Len(windows) = 2
    /\ \E i \in Idx : windows[i].type = "finder" /\ windows[i].data # NoData
    /\ \E i \in Idx : windows[i].isMinimized
    /\ windows = Deserialize(storage[activeUser].sessions)

-----------------------------------------------------------------------------
(* Claims about the entries of the session stack                           *)

\* no two neighbours of the stack are the same user
NoAdjacentRepeats(stack) ==
    \A i \in 1..(Len(stack) - 1) : stack[i] # stack[i + 1]

\* C38: no two adjacent entries of a terminal's session stack are the same
\* username, under any sequence of su commands and closes of a session: a
\* su to the effective user answers "Already logged in as <user>" without
\* an error and pushes nothing.
C38_NoAdjacentRepeats ==
    [][ /\ NoAdjacentRepeats(sessionStack')
        /\ \A line \in Lines :
             (Submit(line) /\ IsSu(line) /\ Target(line) = Active)
             => /\ sessionStack' = sessionStack
                /\ ~lastCtx'.result.error
                /\ lastCtx'.result.output =
                      <<<<"Already logged in as ", Target(line)>>>> ]_vars

\* alice became root, root became alice again, and a further su to alice
\* was answered without a push
C38_Witness ==
    /\ sessionStack = <<"alice", "root", "alice">>
    /\ Len(history) = 3
    /\ history[3].command.cmd = "su"
    /\ history[3].output = <<<<"Already logged in as ", "alice">>>>
    /\ ~history[3].error

-----------------------------------------------------------------------------
(* Claims about the drop of an icon on a free cell                         *)

\* no icon of the desktop other than id has a stored position in the cell
FreeOfStored(id, cell) ==
    \A j \in (IdsOf(desktop) \cap DOMAIN iconGridPositions) \ {id} :
        gridPosToKey(iconGridPositions[j]) # gridPosToKey(cell)

\* C39: dropping an icon on a grid cell that no other desktop icon with a
\* stored position occupies sets the entry of the dragged icon in the
\* position map to the target cell and changes nothing else: every other
\* entry stays, nothing is moved in the file system and the desktop listing
\* is as before.
C39_DropOnFreeCell ==
    [][ \A id \in DeskIds, cell \in Cells :
          (FreeOfStored(id, cell) /\ UpdateIconPosition(id, cell, FALSE, TRUE))
          => /\ DOMAIN iconGridPositions' = DOMAIN iconGridPositions \cup {id}
             /\ iconGridPositions'[id] = cell
             /\ \A j \in DOMAIN iconGridPositions \ {id} :
                   iconGridPositions'[j] = iconGridPositions[j]
             /\ moved' = moved
             /\ desktop' = desktop ]_vars

\* the one icon of the desktop is in the last cell of the grid, where the
\* entry of a file that left the desktop still is: the icon was dropped on
\* a cell that no icon of the desktop held
C39_Witness ==
    /\ Len(desktop) = 1
    /\ \E i \in IdsOf(desktop) :
       \E j \in DOMAIN iconGridPositions \ IdsOf(desktop) :
          /\ i \in DOMAIN iconGridPositions
          /\ iconGridPositions[i] = Cell(GridCols - 1, GridRows - 1)
          /\ iconGridPositions[j] = iconGridPositions[i]
    /\ moved = <<>>

-----------------------------------------------------------------------------
(* Claims about the text that a completion leaves                          *)

\* the candidates for the last word of the prompt
CandidatesOf(raw, path, fs) ==
    getAutocompleteCandidates(LastPart(raw), IsCommandWord(raw), path, fs)

\* Tab completes the argument that the prompt ends with: there is just one
\* candidate for it
CompletesArgument ==
    /\ Tab
    /\ input # Blank
    /\ ~IsCommandWord(input)
    /\ Len(CandidatesOf(input, currentPath, files)) = 1

\* the prompt but for its last word
BeforeLastPart(raw) ==
    IF raw.redirect # NoRedirect
    THEN [cmd |-> raw.cmd, args |-> raw.args, kind |-> raw.redirect.kind]
    ELSE [cmd |-> raw.cmd,
          args |-> IF raw.args = <<>> THEN <<>>
                   ELSE SubSeq(raw.args, 1, Len(raw.args) - 1),
          kind |-> ""]

\* C36: after the completion of a path argument by its single candidate the
\* directory prefix of the completed word is kept: an input that ends in
\* `dir/fi`, with the single candidate `file.txt` in dir, ends in
\* `dir/file.txt`, so that the completed word names the candidate.  The
\* source computes that text and then overwrites it with
\* input.substring(0, input.lastIndexOf(partial)) + completion, partial
\* being the whole word.
C36_CompletionKeepsDirectory ==
    [][ (CompletesArgument /\ HasSlash(LastPart(input)))
        => LastPart(input') =
              CheckPath(DirPart(LastPart(input)),
                        CandidatesOf(input, currentPath, files)[1]) ]_vars

\* C36, what holds: the text before the completed word stays, and the word
\* becomes the candidate, whether it had a directory part or not
C36_CompletionKeepsTextBefore ==
    [][ (CompletesArgument /\ ~input.pad)
        => /\ BeforeLastPart(input') = BeforeLastPart(input)
           /\ LastPart(input') =
                 CandidatesOf(input, currentPath, files)[1] ]_vars

-----------------------------------------------------------------------------
(* Claims about the ghost text                                             *)

\* the words of a list, each after a blank
RECURSIVE WordsOf(_)
WordsOf(args) ==
    IF args = <<>> THEN <<>>
    ELSE <<" ">> \o Spell(Head(args)) \o WordsOf(Tail(args))

\* the characters that the prompt holds
TextOf(raw) ==
    Spell(raw.cmd)
    \o WordsOf(raw.args)
    \o (IF raw.redirect = NoRedirect THEN <<>>
        ELSE <<" ">> \o Spell(raw.redirect.kind)
             \o (IF raw.redirect.path = "" THEN <<>>
                 ELSE <<" ">> \o Spell(raw.redirect.path)))
    \o (IF raw.pad THEN <<" ">> ELSE <<>>)

BeginsWith(text, start) ==
    Len(start) <= Len(text) /\ SubSeq(text, 1, Len(start)) = start

\* Tab would set the prompt: there is one candidate
TabCommits ==
    input # Blank /\ Len(CandidatesOf(input, currentPath, files)) = 1

\* the text that Tab would leave in the prompt
Committed ==
    TextOf(completeInput(input, CandidatesOf(input, currentPath, files)[1]))

\* Tab would set the prompt to a longer text that begins with the present one
TabExtends ==
    /\ TabCommits
    /\ BeginsWith(Committed, TextOf(input))
    /\ Len(Committed) > Len(TextOf(input))

Ghost == ghostText(input, currentPath, files)

DigitChars == <<"0", "1", "2", "3", "4", "5", "6", "7", "8", "9">>

\* \d
IsDigit(c) == \E d \in 1..Len(DigitChars) : DigitChars[d] = c
DigitValue(c) == (CHOOSE d \in 1..Len(DigitChars) : DigitChars[d] = c) - 1

\* str.split('.'): the pieces between the dots, empty ones included
RECURSIVE SplitFrom(_, _, _)
SplitFrom(str, done, piece) ==
    IF str = <<>> THEN Append(done, piece)
    ELSE IF Head(str) = "."
    THEN SplitFrom(Tail(str), Append(done, piece), <<>>)
    ELSE SplitFrom(Tail(str), done, Append(piece, Head(str)))
split(str) == SplitFrom(str, <<>>, <<>>)

\* the value of a sequence of decimal digits
RECURSIVE Decimal(_, _)
Decimal(digits, value) ==
    IF digits = <<>> THEN value
    ELSE Decimal(Tail(digits), 10 * value + DigitValue(Head(digits)))

\* (\d{1,3})
IsGroup(piece) ==
    /\ Len(piece) \in 1..3
    /\ \A i \in 1..Len(piece) : IsDigit(piece[i])

\* ip.match(/^(\d{1,3})\.(\d{1,3})\.(\d{1,3})\.(\d{1,3})$/): the four
\* groups, or none
match(ip) ==
    IF Len(split(ip)) = 4 /\ \A i \in 1..4 : IsGroup(split(ip)[i])
    THEN split(ip) ELSE <<>>

\* parseInt(match[i]), match[i] being digits
parseInt(digits) == Decimal(digits, 0)

\* Number(part) of a part that passed isValidIP
Number(part) == Decimal(part, 0)

\* a & b
RECURSIVE BitAnd(_, _)
BitAnd(a, b) ==
    IF a = 0 \/ b = 0 THEN 0
    ELSE (a % 2) * (b % 2) + 2 * BitAnd(a \div 2, b \div 2)

\* an isValidIP without the test of the range
isValidIPOfAnyOctet(ip) == match(ip) # <<>>

\* isValidIP(ip)
isValidIP(ip) ==
    /\ match(ip) # <<>>
    /\ \A i \in 1..4 : ~(parseInt(match(ip)[i]) < 0
                         \/ parseInt(match(ip)[i]) > 255)

Valid == [valid |-> TRUE, error |-> "undefined"]
Invalid(error) == [valid |-> FALSE, error |-> error]

\* validateNetworkConfig(config)
validateNetworkConfig(cfg) ==
    IF ~isValidIP(cfg.ip) THEN Invalid("invalidIP")
    ELSE IF ~isValidIP(cfg.gateway) THEN Invalid("invalidGateway")
    ELSE IF ~isValidIP(cfg.subnetMask) THEN Invalid("invalidSubnetMask")
    ELSE IF ~isValidIP(cfg.dns) THEN Invalid("invalidDNS")
    ELSE LET ipParts      == MapSeq(split(cfg.ip), Number)
             gatewayParts == MapSeq(split(cfg.gateway), Number)
             maskParts    == MapSeq(split(cfg.subnetMask), Number)
         IN  IF \E i \in 1..4 : BitAnd(ipParts[i], maskParts[i])
                                  # BitAnd(gatewayParts[i], maskParts[i])
             THEN Invalid("gatewayNotInSubnet")
             ELSE Valid

\* the pieces with dots between them
RECURSIVE Dotted(_)
Dotted(pieces) ==
    IF Len(pieces) = 0 THEN <<>>
    ELSE IF Len(pieces) = 1 THEN pieces[1]
    ELSE pieces[1] \o <<".">> \o Dotted(Tail(pieces))

\* the spellings of the pieces that the addresses below are made of
P0    == <<"0">>
P1    == <<"1">>
P2    == <<"2">>
P8    == <<"8">>
P10   == <<"1", "0">>
P010  == <<"0", "1", "0">>
P168  == <<"1", "6", "8">>
P192  == <<"1", "9", "2">>
P240  == <<"2", "4", "0">>
P255  == <<"2", "5", "5">>
P256  == <<"2", "5", "6">>
P999  == <<"9", "9", "9">>
P1234 == <<"1", "2", "3", "4">>
PNone == <<>>
PHex  == <<"f", "f">>
PSign == <<"-", "1">>

\* the addresses given: well formed ones, some with leading zeros, and
\* ill-formed ones of every kind
HostAddresses ==
    { Dotted(<<P192, P168, P1, P10>>), Dotted(<<P192, P168, P1, P1>>),
      Dotted(<<P192, P168, P2, P1>>),  Dotted(<<P10, P0, P0, P1>>),
      Dotted(<<P010, P0, P0, P2>>),    Dotted(<<P10, P0, P8, P1>>),
      Dotted(<<P10, P0, P168, P1>>) }
Masks ==
    { Dotted(<<P255, P255, P255, P0>>), Dotted(<<P255, P255, P0, P0>>),
      Dotted(<<P0, P0, P0, P0>>),       Dotted(<<P255, P0, P255, P0>>),
      Dotted(<<P255, P255, P240, P0>>),
      Dotted(<<P255, P255, P255, P255>>) }
IllFormed ==
    { <<>>,
      Dotted(<<P256, P1, P1, P1>>),    Dotted(<<P999, P0, P0, P1>>),
      Dotted(<<P10, P0, P1>>),         Dotted(<<P10, P0, P0, P1, P1>>),
      Dotted(<<P10, PNone, P0, P1>>),  Dotted(<<P10, P0, P0, PHex>>),
      Dotted(<<P1234, P0, P0, P1>>),   Dotted(<<P10, P0, P0, PNone>>),
      Dotted(<<PSign, P0, P0, P1>>) }

Config(ip, gateway, subnetMask, dns) ==
    [ip |-> ip, gateway |-> gateway, subnetMask |-> subnetMask, dns |-> dns]

\* validateNetworkConfig has not been called
NotValidated == <<>>

InitNet ==
    /\ \E ip \in HostAddresses \cup IllFormed,
          gateway \in HostAddresses
                      \cup {Dotted(<<P256, P1, P1, P1>>),
                            Dotted(<<P10, P0, P1>>)},
          subnetMask \in Masks \cup {Dotted(<<P255, P255, P255, P256>>),
                                     Dotted(<<P255, P255, P255>>)},
          dns \in {Dotted(<<P8, P8, P8, P8>>), Dotted(<<P8, P8, P8, PHex>>),
                   Dotted(<<P1, P1, P1, P1>>)} :
          config = Config(ip, gateway, subnetMask, dns)
    /\ validation = NotValidated
    /\ desktop = <<>>
    /\ iconGridPositions = <<>>
    /\ positions = <<>>
    /\ timers = <<>>
    /\ quota = FALSE
    /\ raised = FALSE
    /\ moved = <<>>
    /\ FxIdle
    /\ currentUser = "alice"
    /\ sessionStack = <<"alice">>
    /\ history = <<>>
    /\ files = <<>>
    /\ fsCalls = <<>>
    /\ lastCtx = <<>>
    /\ input = ""
    /\ commandHistory = <<>>
    /\ historyIndex = -1
    /\ currentPath = "/home/alice"
    /\ inFlight = <<>>
    /\ peer = <<>>
    /\ globIn = <<>>
    /\ globOut = <<>>
    /\ WMIdle

\* validateNetworkConfig(config) is called
Validate ==
    /\ validation = NotValidated
    /\ validation' = validateNetworkConfig(config)
    /\ UNCHANGED config
    /\ UNCHANGED <<desktop, iconGridPositions, positions, timers, quota,
                   raised, moved>>
    /\ UNCHANGED <<wmVars, shellVars, fxVars>>

NextNet == Validate

SpecNet == InitNet /\ [][NextNet]_vars

-----------------------------------------------------------------------------
(* Claims about the network settings                                       *)

\* the bits of an octet that are set
BitsOf(n) == {k \in 0..7 : (n \div (2 ^ k)) % 2 = 1}

\* four groups of one to three decimal digits, each of a value in 0..255,
\* with dots between them
WellFormed(addr) ==
    /\ Len(SelectSeq(addr, LAMBDA c : c = ".")) = 3
    /\ \A i \in 1..Len(addr) : addr[i] = "." \/ IsDigit(addr[i])
    /\ \A i \in 1..4 : /\ Len(split(addr)[i]) \in 1..3
                       /\ Decimal(split(addr)[i], 0) \in 0..255

Octets(addr) == [i \in 1..4 |-> Decimal(split(addr)[i], 0)]

\* in each octet the address and the gateway agree on the bits of the mask
SameSubnet(cfg) ==
    \A i \in 1..4 :
        BitsOf(Octets(cfg.ip)[i]) \cap BitsOf(Octets(cfg.subnetMask)[i])
        = BitsOf(Octets(cfg.gateway)[i]) \cap BitsOf(Octets(cfg.subnetMask)[i])

\* C31: validateNetworkConfig returns valid exactly when ip, gateway,
\* subnetMask and dns are each four dot-separated groups of one to three
\* decimal digits of a value in 0..255 and, in each octet, ip AND mask is
\* gateway AND mask; otherwise it returns the first error that applies, in
\* the order invalidIP, invalidGateway, invalidSubnetMask, invalidDNS,
\* gatewayNotInSubnet.
C31_ValidationIsFirstError ==
    validation # NotValidated
    => validation =
          ( IF ~WellFormed(config.ip) THEN Invalid("invalidIP")
            ELSE IF ~WellFormed(config.gateway)
            THEN Invalid("invalidGateway")
            ELSE IF ~WellFormed(config.subnetMask)
            THEN Invalid("invalidSubnetMask")
            ELSE IF ~WellFormed(config.dns) THEN Invalid("invalidDNS")
            ELSE IF ~SameSubnet(config) THEN Invalid("gatewayNotInSubnet")
            ELSE Valid )

\* an address with a leading zero and a gateway of another subnet under a
\* mask that is not a whole number of octets: all four are well formed, and
\* the gateway is refused
C31_Witness ==
    /\ validation = Invalid("gatewayNotInSubnet")
    /\ config.ip = Dotted(<<P010, P0, P0, P2>>)
    /\ config.gateway = Dotted(<<P10, P0, P168, P1>>)
    /\ config.subnetMask = Dotted(<<P255, P255, P240, P0>>)

=============================================================================
